---------------------------- MODULE Spec2Model ----------------------------
(***************************************************************************)
(* A model of data_utils: the Parquet snapshot layer                       *)
(* (data_utils/parquet_loader/parquet_loader.py) on top of the object      *)
(* store client (data_utils/s3/s3.py).                                     *)
(*                                                                         *)
(* A DataFrame is a record [cols, rows]: cols the ordered column names,    *)
(* rows a sequence of functions from the column names to cell values.      *)
(* Cell values and names are strings.  The row index of a frame is not     *)
(* modelled: every frame the code stores is written with index=False and   *)
(* every frame it builds is built with ignore_index=True.                  *)
(***************************************************************************)
EXTENDS Integers, Sequences, FiniteSets, TLC

\* ------------------------------------------------------------------------
\* Bounds of the model
\* ------------------------------------------------------------------------

\* Most rows of a dataset a caller passes in.
MaxRows == 2

\* ------------------------------------------------------------------------
\* Values
\* ------------------------------------------------------------------------

\* Python's None where a string is expected (a bucket name).
None == "None"

\* Python's None where an object is expected (a DataFrame, a stat result,
\* a response).
NoneObj == [none |-> TRUE]

\* Python's None where a hex digest is expected: the empty sequence, which
\* no digest is.
NoHash == <<>>

\* The missing-value marker pandas fills in where a frame lacks a column.
NaN == "NaN"

\* The values of the id column where one call is looked at.
IdValues == {"1", "2", "3"}

\* The values of the id column where two calls are looked at.
FewIdValues == {"1", "2"}

ValValues == {"A", "B"}

\* ------------------------------------------------------------------------
\* Sequence helpers
\* ------------------------------------------------------------------------

Range(s) == {s[i] : i \in DOMAIN s}

RECURSIVE SeqFilter(_, _)
\* The subsequence of s whose elements are in the set S, order kept.
SeqFilter(s, S) ==
    IF s = <<>> THEN <<>>
    ELSE IF Head(s) \in S THEN <<Head(s)>> \o SeqFilter(Tail(s), S)
         ELSE SeqFilter(Tail(s), S)

\* How many times the element x occurs in the sequence s.
Count(s, x) == Cardinality({i \in DOMAIN s : s[i] = x})

\* All sequences over S of length at most n.
SeqsUpTo(S, n) == UNION {[1..k -> S] : k \in 0..n}

\* ------------------------------------------------------------------------
\* DataFrames
\* ------------------------------------------------------------------------

DataFrame(cols, rows) == [cols |-> cols, rows |-> rows]

\* The rows over the columns cols, the id column holding one of ids.
RowsOver(cols, ids) ==
    {r \in [Range(cols) -> ids \cup ValValues] :
        \A c \in Range(cols) : r[c] \in (IF c = "id" THEN ids ELSE ValValues)}

\* The datasets over the columns cols with at most n rows.
FramesOver(cols, ids, n) ==
    {DataFrame(cols, rs) : rs \in SeqsUpTo(RowsOver(cols, ids), n)}

\* pd.DataFrame.empty: no rows, or no columns.
IsEmpty(df) == df.rows = <<>> \/ df.cols = <<>>

\* A row widened to the columns cols: NaN where the row has no such column.
Widen(r, cols) ==
    [c \in Range(cols) |-> IF c \in DOMAIN r THEN r[c] ELSE NaN]

concat_reversed(a, b) ==
    LET cols == b.cols \o SeqFilter(a.cols, Range(a.cols) \ Range(b.cols))
    IN  DataFrame(cols,
                  [i \in 1..Len(b.rows) |-> Widen(b.rows[i], cols)]
                  \o [i \in 1..Len(a.rows) |-> Widen(a.rows[i], cols)])

\* pd.concat([a, b], ignore_index=True): the union of the columns in order
\* of first appearance, a's rows and then b's rows, NaN for absent cells.
concat(a, b) ==
    LET cols == a.cols \o SeqFilter(b.cols, Range(b.cols) \ Range(a.cols))
    IN  DataFrame(cols,
                  [i \in 1..Len(a.rows) |-> Widen(a.rows[i], cols)]
                  \o [i \in 1..Len(b.rows) |-> Widen(b.rows[i], cols)])

\* df[key_columns] of one row: the row's values on the key columns.
KeyOf(r, key_columns) == [i \in DOMAIN key_columns |-> r[key_columns[i]]]

\* new_df.set_index(key_columns).reset_index()[key_columns]: the frame of
\* the key columns of new_df, one row per row of new_df.
key_frame(new_df, key_columns) ==
    DataFrame(key_columns,
              [i \in 1..Len(new_df.rows) |->
                  [c \in Range(key_columns) |-> new_df.rows[i][c]]])

RECURSIVE left_merge_rows(_, _, _)
\* existing_df.merge(right, on=key_columns, how='left', indicator=True),
\* as a sequence of [row, _merge]: for each left row in order, one output
\* row per right row with equal key values (_merge = both), or a single
\* output row when no right row matches (_merge = left_only).
left_merge_rows(left_rows, right_rows, key_columns) ==
    IF left_rows = <<>> THEN <<>>
    ELSE
        LET l == Head(left_rows)
            hits == {j \in DOMAIN right_rows :
                        KeyOf(right_rows[j], key_columns) = KeyOf(l, key_columns)}
            out == IF hits = {}
                   THEN <<[row |-> l, _merge |-> "left_only"]>>
                   ELSE [j \in 1..Cardinality(hits) |-> [row |-> l, _merge |-> "both"]]
        IN  out \o left_merge_rows(Tail(left_rows), right_rows, key_columns)

RECURSIVE select_merge(_, _)
\* merged[merged['_merge'] == which].drop('_merge', axis=1)
select_merge(merged, which) ==
    IF merged = <<>> THEN <<>>
    ELSE IF Head(merged)._merge = which
         THEN <<Head(merged).row>> \o select_merge(Tail(merged), which)
         ELSE select_merge(Tail(merged), which)

perform_upsert_drop_matched(existing_df, new_df, key_columns) ==
    IF ~(Range(key_columns) \subseteq Range(new_df.cols) \cap Range(existing_df.cols))
    THEN concat(existing_df, new_df)
    ELSE LET merged == left_merge_rows(existing_df.rows,
                                       key_frame(new_df, key_columns).rows,
                                       key_columns)
             fresh  == left_merge_rows(new_df.rows,
                                       key_frame(existing_df, key_columns).rows,
                                       key_columns)
         IN  concat(DataFrame(existing_df.cols, select_merge(merged, "left_only")),
                    DataFrame(new_df.cols, select_merge(fresh, "left_only")))

perform_upsert_keep_matched(existing_df, new_df, key_columns) ==
    IF ~(Range(key_columns) \subseteq Range(new_df.cols) \cap Range(existing_df.cols))
    THEN concat(existing_df, new_df)
    ELSE LET merged == left_merge_rows(existing_df.rows,
                                       key_frame(new_df, key_columns).rows,
                                       key_columns)
         IN  concat(DataFrame(existing_df.cols, select_merge(merged, "both")), new_df)

\* ParquetUploader._perform_upsert.  Every failure inside it (the declared
\* ValueError for key columns absent from both frames, the KeyError of
\* set_index or merge for a key column absent from one frame) is caught by
\* its own handler, which returns the plain concatenation.
perform_upsert(existing_df, new_df, key_columns) ==
    LET missing_keys ==
            (Range(key_columns) \ Range(existing_df.cols)) \ Range(new_df.cols)
    IN  IF missing_keys # {} THEN concat(existing_df, new_df)
        ELSE IF ~IsEmpty(new_df) THEN
            IF ~(Range(key_columns) \subseteq Range(new_df.cols))
                THEN concat(existing_df, new_df)
            ELSE IF ~(Range(key_columns) \subseteq Range(existing_df.cols))
                THEN concat(existing_df, new_df)
            ELSE
                LET merged == left_merge_rows(
                        existing_df.rows,
                        key_frame(new_df, key_columns).rows, key_columns)
                    existing_without_duplicates ==
                        DataFrame(existing_df.cols, select_merge(merged, "left_only"))
                IN  concat(existing_without_duplicates, new_df)
        ELSE existing_df


\* ------------------------------------------------------------------------
\* Parquet serialisation
\* ------------------------------------------------------------------------

to_parquet_first_column_only(df) ==
    [schema   |-> SubSeq(df.cols, 1, 1),
     num_rows |-> Len(df.rows),
     chunks   |-> [i \in 1..Len(SubSeq(df.cols, 1, 1)) |->
                      [j \in 1..Len(df.rows) |-> df.rows[j][df.cols[i]]]]]

\* df.to_parquet(buffer, index=False): the file holds the column names in
\* order, the row count, and the cells column by column (one chunk per
\* column); no index column is written.
to_parquet(df) ==
    [schema   |-> df.cols,
     num_rows |-> Len(df.rows),
     chunks   |-> [i \in 1..Len(df.cols) |->
                      [j \in 1..Len(df.rows) |-> df.rows[j][df.cols[i]]]]]

\* pd.read_parquet(buffer): rows rebuilt from the column chunks.
read_parquet(body) ==
    DataFrame(body.schema,
              [j \in 1..body.num_rows |->
                  [c \in Range(body.schema) |->
                      body.chunks[CHOOSE i \in DOMAIN body.schema : body.schema[i] = c][j]]])

\* len(buffer.getvalue()): one unit per column name and per cell.
FileSize(body) == Len(body.schema) + Len(body.schema) * body.num_rows

\* ------------------------------------------------------------------------
\* S3Uploader: strings are sequences of characters
\* ------------------------------------------------------------------------

Quote == "\""

Dash == "-"

RECURSIVE lstrip(_, _)
lstrip(s, ch) == IF s # <<>> /\ Head(s) = ch THEN lstrip(Tail(s), ch) ELSE s

RECURSIVE rstrip(_, _)
rstrip(s, ch) ==
    IF s # <<>> /\ s[Len(s)] = ch THEN rstrip(SubSeq(s, 1, Len(s) - 1), ch) ELSE s

\* str.strip('"')
strip(s, ch) == rstrip(lstrip(s, ch), ch)

\* S3Uploader._calculate_local_file_hash on a readable file: the hex digest
\* of the content, a token of one symbol per distinct content (collisions
\* are not modelled).  A digest never holds a dash.
calculate_local_file_hash(body) == <<ToString(body)>>

\* The ETag the store gives an object put in one part: the quoted digest.
ETagOf(body) == <<Quote>> \o calculate_local_file_hash(body) \o <<Quote>>

\* S3Uploader._get_s3_object_info: None when head_object fails (a 404 or
\* any other ClientError), else size, unquoted ETag and last-modified.
get_s3_object_info(response) ==
    IF response = NoneObj THEN NoneObj
    ELSE [size          |-> response.ContentLength,
          etag          |-> strip(response.ETag, Quote),
          last_modified |-> response.LastModified]

Abs(x) == IF x < 0 THEN -x ELSE x

MiB == 1024 * 1024

\* Times are in milliseconds.
Seconds(n) == n * 1000

files_are_equal_strict_tolerance(local_stat, response, local_hash) ==
    LET s3_info == get_s3_object_info(response)
    IN  IF local_stat = NoneObj THEN FALSE
        ELSE IF s3_info = NoneObj THEN FALSE
        ELSE IF local_stat.st_size # s3_info.size THEN FALSE
        ELSE IF local_stat.st_size > 5 * MiB THEN TRUE
        ELSE IF Abs(local_stat.st_mtime - s3_info.last_modified) < Seconds(2) THEN TRUE
        ELSE IF local_stat.st_size < 50 * MiB
            THEN IF local_hash = NoHash THEN FALSE
                 ELSE (Dash \notin Range(s3_info.etag)) /\ local_hash = s3_info.etag
        ELSE FALSE

files_are_equal_large_from_limit(local_stat, response, local_hash) ==
    LET s3_info == get_s3_object_info(response)
    IN  IF local_stat = NoneObj THEN FALSE
        ELSE IF s3_info = NoneObj THEN FALSE
        ELSE IF local_stat.st_size # s3_info.size THEN FALSE
        ELSE IF local_stat.st_size >= 5 * MiB THEN TRUE
        ELSE IF Abs(local_stat.st_mtime - s3_info.last_modified) <= Seconds(2) THEN TRUE
        ELSE IF local_stat.st_size < 50 * MiB
            THEN IF local_hash = NoHash THEN FALSE
                 ELSE (Dash \notin Range(s3_info.etag)) /\ local_hash = s3_info.etag
        ELSE FALSE

\* S3Uploader._files_are_equal.  local_stat is None when os.stat raises
\* OSError; response is the head_object response or None; local_hash is
\* what _calculate_local_file_hash returns (None when reading fails) and is
\* only looked at on the hash step.
files_are_equal(local_stat, response, local_hash) ==
    LET s3_info == get_s3_object_info(response)
    IN  IF local_stat = NoneObj THEN FALSE
        ELSE IF s3_info = NoneObj THEN FALSE
        ELSE IF local_stat.st_size # s3_info.size THEN FALSE
        ELSE IF local_stat.st_size > 5 * MiB THEN TRUE
        ELSE IF Abs(local_stat.st_mtime - s3_info.last_modified) <= Seconds(2) THEN TRUE
        ELSE IF local_stat.st_size < 50 * MiB
            THEN IF local_hash = NoHash THEN FALSE
                 ELSE (Dash \notin Range(s3_info.etag)) /\ local_hash = s3_info.etag
        ELSE FALSE

files_are_equal_hashes_first(local_stat, response) ==
    local_stat # NoneObj /\ get_s3_object_info(response) # NoneObj

\* Whether S3Uploader._files_are_equal reaches its call of
\* _calculate_local_file_hash: only when the object is there, the sizes
\* agree, neither the size step nor the time step has answered, and the
\* file is below 50 MiB.
files_are_equal_calls_hash(local_stat, response) ==
    LET s3_info == get_s3_object_info(response)
    IN  IF local_stat = NoneObj THEN FALSE
        ELSE IF s3_info = NoneObj THEN FALSE
        ELSE IF local_stat.st_size # s3_info.size THEN FALSE
        ELSE IF local_stat.st_size > 5 * MiB THEN FALSE
        ELSE IF Abs(local_stat.st_mtime - s3_info.last_modified) <= Seconds(2) THEN FALSE
        ELSE local_stat.st_size < 50 * MiB

\* Whether S3Uploader._files_are_equal comes to its test of the 50 MiB
\* limit: neither the size step nor the time step has answered.
files_are_equal_reaches_hash_step(local_stat, response) ==
    LET s3_info == get_s3_object_info(response)
    IN  IF local_stat = NoneObj THEN FALSE
        ELSE IF s3_info = NoneObj THEN FALSE
        ELSE IF local_stat.st_size # s3_info.size THEN FALSE
        ELSE IF local_stat.st_size > 5 * MiB THEN FALSE
        ELSE Abs(local_stat.st_mtime - s3_info.last_modified) > Seconds(2)

resolve_bucket_prefers_default(bucket_name, default) ==
    IF default # None THEN default
    ELSE IF bucket_name # None THEN bucket_name
    ELSE None

\* S3Uploader._resolve_bucket: the bucket, or None for the ValueError.
resolve_bucket(bucket_name, default) ==
    IF bucket_name # None THEN bucket_name
    ELSE IF default # None THEN default
    ELSE None

\* ------------------------------------------------------------------------
\* State
\* ------------------------------------------------------------------------

VARIABLES
    default_bucket, \* S3Uploader.default_bucket
    store,          \* the bucket: s3 key -> the object's bytes, or Absent
    pc,             \* per caller: idle, download, upload, done
    call,           \* per caller: the public method running and its arguments
    existing_df,    \* per caller: what download_dataframe returned
    upload_df,      \* per caller: the frame handed to upload_dataframe
    ret,            \* per caller: what the public method returned
    obs,            \* per caller, history: the object when the call began and
                    \* when it was read, how the read and the put went, and
                    \* whether the temporary file is left behind
    prev,           \* history: the call caller 1 completed before this one
    initial,        \* history: the store before the first call
    fe,             \* one evaluation of S3Uploader._files_are_equal
    s3,             \* one direct call of an S3Uploader method
    pg              \* a Postgres connector, its database and its one call

vars == <<default_bucket, store, pc, call, existing_df, upload_df, ret, obs,
          prev, initial, fe, s3, pg>>

Procs == {1, 2}

Keys == {"k1", "k2"}

Bucket == "b1"

Absent == [absent |-> TRUE]

NoCall == [op |-> "none"]

NoObs == [pre |-> Absent, seen |-> Absent, read |-> "none", put |-> "none",
          tmp_left |-> FALSE]

\* The differences between the temporary file's mtime and the object's
\* last-modified time that the environment may produce.
TimeDiffs == {Seconds(2), Seconds(2) + 1}

KeyColumnChoices == {<<"id">>, <<"val", "id">>, <<"id", "zz">>}

\* What callers pass in: frames with both columns, and frames without the
\* id column, of at most n rows.
Frames(ids, n) ==
    FramesOver(<<"id", "val">>, ids, n) \cup FramesOver(<<"val">>, ids, n)

\* What an object may hold before the first call: nothing, or a snapshot.
Snapshots(ids, n) == {Absent} \cup {to_parquet(df) : df \in Frames(ids, n)}

\* The calls of the four public methods of ParquetUploader over the given
\* keys, frames, bucket arguments and skip flags.
Calls(keys, frames, buckets, skips) ==
    [op : {"upload_dataframe"}, s3_key : keys, df : frames,
     key_columns : {<<>>}, bucket_name : buckets, skip_if_exists : skips]
    \cup
    [op : {"download_dataframe"}, s3_key : keys, df : {NoneObj},
     key_columns : {<<>>}, bucket_name : buckets, skip_if_exists : {FALSE}]
    \cup
    [op : {"append_dataframe"}, s3_key : keys, df : frames,
     key_columns : {<<>>}, bucket_name : buckets, skip_if_exists : {FALSE}]
    \cup
    [op : {"upsert_dataframe"}, s3_key : keys, df : frames,
     key_columns : KeyColumnChoices, bucket_name : buckets, skip_if_exists : {FALSE}]

\* ------------------------------------------------------------------------
\* Steps of a call.  A call touches the store at most twice: the read of
\* download_dataframe and the put of upload_file; each is one step.
\* download_dataframe catches every exception, so the handlers that
\* upsert_dataframe and append_dataframe wrap around it never run.
\* ------------------------------------------------------------------------

\* A public method is entered with the arguments c.  upsert_dataframe
\* resolves the bucket first and returns None when there is none;
\* everything else goes on to its first store access.
Begin(p, c) ==
    /\ pc[p] \in {"idle", "done"}
    /\ call' = [call EXCEPT ![p] = c]
    /\ obs' = [obs EXCEPT ![p] = [NoObs EXCEPT !.pre = store[c.s3_key]]]
    /\ existing_df' = [existing_df EXCEPT ![p] = NoneObj]
    /\ ret' = [ret EXCEPT ![p] = NoneObj]
    /\ IF c.op = "upload_dataframe"
       THEN /\ upload_df' = [upload_df EXCEPT ![p] = c.df]
            /\ pc' = [pc EXCEPT ![p] = "upload"]
       ELSE IF c.op = "upsert_dataframe"
               /\ resolve_bucket(c.bucket_name, default_bucket) = None
       THEN /\ upload_df' = [upload_df EXCEPT ![p] = NoneObj]
            /\ pc' = [pc EXCEPT ![p] = "done"]
       ELSE /\ upload_df' = [upload_df EXCEPT ![p] = NoneObj]
            /\ pc' = [pc EXCEPT ![p] = "download"]
    /\ UNCHANGED <<default_bucket, store>>

append_overwrites(existing, new_df) == new_df

\* The body of append_dataframe once download_dataframe has returned.
append_combined(existing, new_df) ==
    IF existing # NoneObj THEN concat(existing, new_df) ELSE new_df

upsert_combined_starts_empty(existing, new_df, key_columns) ==
    IF existing # NoneObj THEN perform_upsert(existing, new_df, key_columns)
    ELSE DataFrame(new_df.cols, <<>>)

\* The body of upsert_dataframe once download_dataframe has returned.
upsert_combined(existing, new_df, key_columns) ==
    IF existing # NoneObj THEN perform_upsert(existing, new_df, key_columns)
    ELSE new_df

download_dataframe_empty_frame == DataFrame(<<>>, <<>>)

\* What download_dataframe's handler returns for any exception.
download_dataframe_except == NoneObj

\* download_dataframe has returned e: download_dataframe hands it to its
\* caller; append_dataframe and upsert_dataframe build the frame to store.
Downloaded(p, e, how) ==
    LET c == call[p]
    IN  /\ existing_df' = [existing_df EXCEPT ![p] = e]
        /\ obs' = [obs EXCEPT ![p].read = how, ![p].seen = store[c.s3_key]]
        /\ IF c.op = "download_dataframe"
           THEN /\ ret' = [ret EXCEPT ![p] = e]
                /\ pc' = [pc EXCEPT ![p] = "done"]
                /\ UNCHANGED upload_df
           ELSE /\ upload_df' = [upload_df EXCEPT ![p] =
                       IF c.op = "append_dataframe"
                       THEN append_combined(e, c.df)
                       ELSE upsert_combined(e, c.df, c.key_columns)]
                /\ pc' = [pc EXCEPT ![p] = "upload"]
                /\ UNCHANGED ret
        /\ UNCHANGED <<default_bucket, store, call>>

\* What download_fileobj and read_parquet give for the object of the call.
download_object(p) == read_parquet(store[call[p].s3_key])

\* download_dataframe: the object is there and is read.
DownloadOk(p) ==
    /\ pc[p] = "download"
    /\ resolve_bucket(call[p].bucket_name, default_bucket) # None
    /\ store[call[p].s3_key] # Absent
    /\ Downloaded(p, download_object(p), "ok")

\* download_dataframe: no bucket resolves, or the object is absent; the
\* exception is caught and None is returned.
DownloadAbsent(p) ==
    /\ pc[p] = "download"
    /\ \/ resolve_bucket(call[p].bucket_name, default_bucket) = None
       \/ store[call[p].s3_key] = Absent
    /\ Downloaded(p, download_dataframe_except,
                  IF resolve_bucket(call[p].bucket_name, default_bucket) = None
                  THEN "no_bucket" ELSE "absent")

\* download_dataframe: the object is there but the store (or the parser)
\* raises; the exception is caught and None is returned.
DownloadError(p) ==
    /\ pc[p] = "download"
    /\ resolve_bucket(call[p].bucket_name, default_bucket) # None
    /\ store[call[p].s3_key] # Absent
    /\ Downloaded(p, download_dataframe_except, "failed")

returned_new_df(p) ==
    IF call[p].op = "upload_dataframe" THEN NoneObj ELSE call[p].df

\* What the public method returns once upload_dataframe has ended:
\* upload_dataframe has no return statement, append_dataframe and
\* upsert_dataframe return the frame they handed to upload_dataframe.
returned_frame(p) ==
    IF call[p].op = "upload_dataframe" THEN NoneObj ELSE upload_df[p]

\* upload_dataframe ends (its own handler catches every exception) and the
\* public method returns.
Uploaded(p, how, left) ==
    /\ obs' = [obs EXCEPT ![p].put = how, ![p].tmp_left = left]
    /\ ret' = [ret EXCEPT ![p] = returned_frame(p)]
    /\ pc' = [pc EXCEPT ![p] = "done"]
    /\ UNCHANGED <<default_bucket, call, existing_df, upload_df>>

\* What head_object answers for the key k, last modified at time 0.
HeadObject(k) ==
    IF store[k] = Absent THEN NoneObj
    ELSE [ContentLength |-> FileSize(store[k]),
          ETag          |-> ETagOf(store[k]),
          LastModified  |-> 0]

\* upload_file's skip test on the temporary file, written time_diff after
\* the object was last modified.
SkipTest(p, time_diff) ==
    LET body == to_parquet(upload_df[p])
    IN  /\ call[p].skip_if_exists
        /\ files_are_equal([st_size |-> FileSize(body), st_mtime |-> time_diff],
                           HeadObject(call[p].s3_key),
                           calculate_local_file_hash(body))

\* upload_file raises ValueError for the bucket; upload_dataframe's handler
\* catches it before os.unlink is reached.
UploadNoBucket(p) ==
    /\ pc[p] = "upload"
    /\ resolve_bucket(call[p].bucket_name, default_bucket) = None
    /\ UNCHANGED store
    /\ Uploaded(p, "no_bucket", TRUE)

\* upload_file finds the object up to date and returns without a put.
UploadSkipped(p) ==
    /\ pc[p] = "upload"
    /\ resolve_bucket(call[p].bucket_name, default_bucket) # None
    /\ \E d \in TimeDiffs : SkipTest(p, d)
    /\ UNCHANGED store
    /\ Uploaded(p, "skipped", FALSE)

put_wrong_key(p) ==
    [store EXCEPT ![CHOOSE k \in Keys : k # call[p].s3_key] = to_parquet(upload_df[p])]

\* s3_client.upload_file succeeds: the object now holds the serialised frame.
put_object(p) ==
    [store EXCEPT ![call[p].s3_key] = to_parquet(upload_df[p])]

\* upload_file puts the temporary file and the put succeeds.
UploadPut(p) ==
    /\ pc[p] = "upload"
    /\ resolve_bucket(call[p].bucket_name, default_bucket) # None
    /\ \E d \in TimeDiffs : ~SkipTest(p, d)
    /\ store' = put_object(p)
    /\ Uploaded(p, "ok", FALSE)

\* The put raises ClientError, which upload_file catches and prints.
UploadClientError(p) ==
    /\ pc[p] = "upload"
    /\ resolve_bucket(call[p].bucket_name, default_bucket) # None
    /\ \E d \in TimeDiffs : ~SkipTest(p, d)
    /\ UNCHANGED store
    /\ Uploaded(p, "client_error", FALSE)

\* The put raises something else (boto3's S3UploadFailedError), which only
\* upload_dataframe's handler catches, before os.unlink is reached.
UploadOtherError(p) ==
    /\ pc[p] = "upload"
    /\ resolve_bucket(call[p].bucket_name, default_bucket) # None
    /\ \E d \in TimeDiffs : ~SkipTest(p, d)
    /\ UNCHANGED store
    /\ Uploaded(p, "error", TRUE)

\* ------------------------------------------------------------------------
\* Spec: one call of any public method, on any stored snapshot, with a
\* store that may fail
\* ------------------------------------------------------------------------

NoEval == [phase |-> "none"]

InitProcs ==
    /\ pc = [p \in Procs |-> "idle"]
    /\ call = [p \in Procs |-> NoCall]
    /\ existing_df = [p \in Procs |-> NoneObj]
    /\ upload_df = [p \in Procs |-> NoneObj]
    /\ ret = [p \in Procs |-> NoneObj]
    /\ obs = [p \in Procs |-> NoObs]
    /\ prev = NoCall

Init ==
    /\ default_bucket \in {None, Bucket}
    /\ store \in [Keys -> Snapshots(IdValues, MaxRows)]
    /\ store["k2"] = Absent
    /\ initial = store
    /\ fe = NoEval
    /\ InitProcs
    /\ s3 = NoEval
    /\ pg = NoEval

\* What the steps of the Parquet layer leave alone.
Rest == <<prev, initial, fe, s3, pg>>

BeginAny ==
    /\ pc[1] = "idle"
    /\ \E c \in Calls({"k1"}, Frames(IdValues, MaxRows), {None, Bucket}, BOOLEAN) :
          Begin(1, c)
    /\ UNCHANGED Rest

Next ==
    \/ BeginAny
    \/ DownloadOk(1) /\ UNCHANGED Rest
    \/ DownloadAbsent(1) /\ UNCHANGED Rest
    \/ DownloadError(1) /\ UNCHANGED Rest
    \/ UploadNoBucket(1) /\ UNCHANGED Rest
    \/ UploadSkipped(1) /\ UNCHANGED Rest
    \/ UploadPut(1) /\ UNCHANGED Rest
    \/ UploadClientError(1) /\ UNCHANGED Rest
    \/ UploadOtherError(1) /\ UNCHANGED Rest

Spec == Init /\ [][Next]_vars

\* ------------------------------------------------------------------------
\* SpecSeq: one caller makes two calls, one after the other, against a
\* store that does not fail and a bucket that resolves
\* ------------------------------------------------------------------------

\* Most rows of a dataset where two calls follow each other.
MaxSeqRows == 2

InitSeq ==
    /\ default_bucket = Bucket
    /\ store \in [Keys -> Snapshots(FewIdValues, MaxSeqRows)]
    /\ store["k2"] = Absent
    /\ initial = store
    /\ fe = NoEval
    /\ InitProcs
    /\ s3 = NoEval
    /\ pg = NoEval

\* The record kept of a completed call.
Completed(p) ==
    [op |-> call[p].op, s3_key |-> call[p].s3_key, df |-> call[p].df,
     key_columns |-> call[p].key_columns, pre |-> obs[p].pre,
     put |-> obs[p].put, ret |-> ret[p]]

BeginFirst ==
    /\ pc[1] = "idle"
    /\ \E c \in Calls({"k1"}, Frames(FewIdValues, MaxSeqRows), {None}, {FALSE}) :
          Begin(1, c)
    /\ UNCHANGED Rest

BeginSecond ==
    /\ pc[1] = "done"
    /\ prev = NoCall
    /\ \E c \in Calls({"k1"}, Frames(FewIdValues, MaxSeqRows), {None}, {FALSE}) :
          Begin(1, c)
    /\ prev' = Completed(1)
    /\ UNCHANGED <<initial, fe, s3, pg>>

NextSeq ==
    \/ BeginFirst
    \/ BeginSecond
    \/ DownloadOk(1) /\ UNCHANGED Rest
    \/ DownloadAbsent(1) /\ UNCHANGED Rest
    \/ UploadPut(1) /\ UNCHANGED Rest

SpecSeq == InitSeq /\ [][NextSeq]_vars

\* ------------------------------------------------------------------------
\* SpecConc: two callers make one call each, their store accesses
\* interleaved in any order, against a store that does not fail
\* ------------------------------------------------------------------------

\* Most rows of a dataset where two callers run together.
MaxConcRows == 1

InitConc ==
    /\ default_bucket = Bucket
    /\ store \in [Keys -> Snapshots(FewIdValues, MaxConcRows)]
    /\ initial = store
    /\ fe = NoEval
    /\ InitProcs
    /\ s3 = NoEval
    /\ pg = NoEval

BeginConc(p) ==
    /\ pc[p] = "idle"
    /\ \E c \in Calls(Keys, FramesOver(<<"id", "val">>, FewIdValues, MaxConcRows),
                      {None}, {FALSE}) :
          /\ c.op # "download_dataframe"
          /\ c.key_columns \in {<<>>, <<"id">>}
          /\ Begin(p, c)
    /\ UNCHANGED Rest

NextConc ==
    \E p \in Procs :
        \/ BeginConc(p)
        \/ DownloadOk(p) /\ UNCHANGED Rest
        \/ DownloadAbsent(p) /\ UNCHANGED Rest
        \/ UploadPut(p) /\ UNCHANGED Rest

SpecConc == InitConc /\ [][NextConc]_vars

\* ------------------------------------------------------------------------
\* SpecHeur: S3Uploader._files_are_equal applied to one local file and one
\* head_object answer
\* ------------------------------------------------------------------------

\* File sizes around the two limits of the heuristic.
Sizes == {1, 5 * MiB, 5 * MiB + 1, 50 * MiB, 50 * MiB + 1}

LocalMtimes == {Seconds(10)}

RemoteMtimes ==
    {Seconds(10), Seconds(8), Seconds(8) - 1, Seconds(12), Seconds(12) + 1}

Digests == {<<"a", "b">>, <<"c", "d">>}

\* ETags without their quotes: plain digests and a multipart token.
Tokens == Digests \cup {<<"a", "b", Dash, "2">>}

\* os.stat of the local file: None when it raises OSError.
LocalStats == {NoneObj} \cup [st_size : Sizes, st_mtime : LocalMtimes]

\* What head_object answers: None for a ClientError, else the metadata,
\* the ETag in quotes.
Responses ==
    {NoneObj} \cup
    {[ContentLength |-> n, ETag |-> <<Quote>> \o t \o <<Quote>>, LastModified |-> m] :
        n \in Sizes, t \in Tokens, m \in RemoteMtimes}

InitHeur ==
    /\ default_bucket = Bucket
    /\ store = [k \in Keys |-> Absent]
    /\ initial = store
    /\ InitProcs
    /\ s3 = NoEval
    /\ pg = NoEval
    /\ fe \in [phase : {"args"}, local_stat : LocalStats, response : Responses,
               local_hash : {NoHash} \cup Digests, result : {FALSE},
               hashed : {FALSE}, reached : {FALSE}]

\* One call of _files_are_equal.
FilesAreEqual ==
    /\ fe.phase = "args"
    /\ fe' = [fe EXCEPT !.phase = "result",
                        !.result = files_are_equal(fe.local_stat, fe.response,
                                                   fe.local_hash),
                        !.hashed = files_are_equal_calls_hash(fe.local_stat,
                                                              fe.response),
                        !.reached = files_are_equal_reaches_hash_step(
                                        fe.local_stat, fe.response)]
    /\ UNCHANGED <<default_bucket, store, pc, call, existing_df, upload_df, ret,
                   obs, prev, initial, s3, pg>>

NextHeur == FilesAreEqual

SpecHeur == InitHeur /\ [][NextHeur]_vars

\* ------------------------------------------------------------------------
\* Properties of one call (Spec)
\* ------------------------------------------------------------------------

HasColumns(df, key_columns) == Range(key_columns) \subseteq Range(df.cols)

\* The key values that occur in the rows of df.
KeysIn(df, key_columns) == {KeyOf(df.rows[i], key_columns) : i \in DOMAIN df.rows}

\* Caller 1 has returned from the method op.
Returned(op) == pc[1] = "done" /\ call[1].op = op

\* The put of the call was attempted (and not skipped).
PutAttempted == obs[1].put \in {"ok", "client_error", "error"}

\* upsert_dataframe has returned after reading an existing snapshot, and
\* both the snapshot and the new dataset hold every key column.
UpsertOntoExisting ==
    /\ Returned("upsert_dataframe")
    /\ obs[1].read = "ok"
    /\ HasColumns(existing_df[1], call[1].key_columns)
    /\ HasColumns(call[1].df, call[1].key_columns)

\* C1: an upsert of N with key columns K onto an existing snapshot E returns
\* exactly the rows of E whose key occurs in no row of N, each as often as
\* in E, plus the rows of N, each as often as in N; no row of E whose key
\* occurs in N survives.  That frame is the one handed to the put, and the
\* object holds it once the put has succeeded.
C1_UpsertMerge ==
    UpsertOntoExisting =>
        LET E == existing_df[1]
            N == call[1].df
            K == call[1].key_columns
            R == ret[1]
        IN  /\ R # NoneObj
            /\ R.cols = E.cols
            /\ \A r \in Range(E.rows) \cup Range(N.rows) \cup Range(R.rows) :
                  Count(R.rows, r) =
                      IF KeyOf(r, K) \in KeysIn(N, K) THEN Count(N.rows, r)
                      ELSE Count(E.rows, r)
            /\ upload_df[1] = R
            /\ PutAttempted
            /\ obs[1].put = "ok" => read_parquet(store["k1"]) = R

\* C1 witness: the upsert replaced a row of E by a row of N with the same
\* id and another val, kept a row of E with no match, added a row of N with
\* no match, and the put succeeded.
C1_Witness ==
    /\ UpsertOntoExisting
    /\ call[1].key_columns = <<"id">>
    /\ obs[1].put = "ok"
    /\ LET E == existing_df[1]
           N == call[1].df
       IN  /\ \E i \in DOMAIN E.rows, j \in DOMAIN N.rows :
                 E.rows[i].id = N.rows[j].id /\ E.rows[i].val # N.rows[j].val
           /\ \E i \in DOMAIN E.rows : <<E.rows[i].id>> \notin KeysIn(N, <<"id">>)
           /\ \E j \in DOMAIN N.rows : <<N.rows[j].id>> \notin KeysIn(E, <<"id">>)

\* download_dataframe has returned after finding no object at the key.
DownloadOfAbsent == Returned("download_dataframe") /\ obs[1].read = "absent"

UpsertWithMissingKeys ==
    /\ Returned("upsert_dataframe")
    /\ obs[1].read = "ok"
    /\ (Range(call[1].key_columns) \ Range(existing_df[1].cols))
           \ Range(call[1].df.cols) # {}

\* C8: an upsert with a key column absent from both datasets fails (returns
\* no dataset) and does not rewrite the stored object.
C8_MissingKeyColumnsFails ==
    UpsertWithMissingKeys =>
        /\ ret[1] = NoneObj
        /\ obs[1].put = "none"
        /\ store = initial

\* append_dataframe or upsert_dataframe has returned after finding no
\* object at the key.
WriteOntoAbsent ==
    /\ pc[1] = "done"
    /\ call[1].op \in {"append_dataframe", "upsert_dataframe"}
    /\ obs[1].read = "absent"

\* C9: with no snapshot at the key, append and upsert hand the new dataset
\* itself to the put, return it unchanged, and the object holds exactly it
\* once the put has succeeded.
C9_AbsentStoresNew ==
    WriteOntoAbsent =>
        /\ upload_df[1] = call[1].df
        /\ ret[1] = call[1].df
        /\ PutAttempted
        /\ obs[1].put = "ok" => read_parquet(store["k1"]) = call[1].df

\* C9 witness: an upsert of two rows with the same id, onto an absent
\* object, has stored both rows.
C9_Witness ==
    /\ WriteOntoAbsent
    /\ call[1].op = "upsert_dataframe"
    /\ call[1].key_columns = <<"id">>
    /\ obs[1].put = "ok"
    /\ Len(call[1].df.rows) = 2
    /\ HasColumns(call[1].df, <<"id">>)
    /\ call[1].df.rows[1].id = call[1].df.rows[2].id
    /\ store["k1"] # Absent
    /\ store["k1"].num_rows = 2

\* ------------------------------------------------------------------------
\* Properties of two calls in a row (SpecSeq)
\* ------------------------------------------------------------------------

\* The frame an object holds; no rows and no columns when it is absent.
Stored(body) == IF body = Absent THEN DataFrame(<<>>, <<>>) ELSE read_parquet(body)

\* The rows of df as they appear in a frame with the columns cols.
WidenedRows(df, cols) == [i \in DOMAIN df.rows |-> Widen(df.rows[i], cols)]

\* No two rows of df agree on every key column.
UniqueKeys(df, key_columns) ==
    /\ HasColumns(df, key_columns)
    /\ \A i, j \in DOMAIN df.rows :
          KeyOf(df.rows[i], key_columns) = KeyOf(df.rows[j], key_columns) => i = j

\* The second call, of the method second, has returned, and the call
\* before it was of the method first.
Followed(first, second) ==
    /\ prev # NoCall
    /\ prev.op = first
    /\ Returned(second)

\* The same upsert has been made twice in a row, of a dataset whose keys
\* are unique.
UpsertTwice ==
    /\ Followed("upsert_dataframe", "upsert_dataframe")
    /\ prev.df = call[1].df
    /\ prev.key_columns = call[1].key_columns
    /\ UniqueKeys(call[1].df, call[1].key_columns)

\* C2: upserting the same dataset, whose keys are unique, a second time
\* leaves the object with the same columns and the same rows, each as
\* often, as after the first upsert.
C2_UpsertIdempotent ==
    UpsertTwice =>
        LET once  == Stored(obs[1].pre)
            twice == Stored(store["k1"])
        IN  /\ twice.cols = once.cols
            /\ Range(twice.rows) = Range(once.rows)
            /\ \A r \in Range(once.rows) : Count(twice.rows, r) = Count(once.rows, r)

\* C2 witness: the first upsert replaced a row of the snapshot and the
\* second upsert of the same two rows has returned.
C2_Witness ==
    /\ UpsertTwice
    /\ call[1].key_columns = <<"id">>
    /\ Len(call[1].df.rows) = 2
    /\ initial["k1"] # Absent
    /\ LET E == read_parquet(initial["k1"])
       IN  /\ HasColumns(E, <<"id">>)
           /\ \E i \in DOMAIN E.rows :
                 /\ <<E.rows[i].id>> \in KeysIn(call[1].df, <<"id">>)
                 /\ E.rows[i] \notin Range(call[1].df.rows)

\* C3: after append(A) and then append(B) on a snapshot E the object holds
\* the rows of E, then those of A, then those of B, in that order and
\* nothing else; each call returns the frame it stored.
C3_AppendTwice ==
    Followed("append_dataframe", "append_dataframe") =>
        LET E == Stored(initial["k1"])
            A == prev.df
            B == call[1].df
            S == Stored(store["k1"])
        IN  /\ S.rows = WidenedRows(E, S.cols) \o WidenedRows(A, S.cols)
                            \o WidenedRows(B, S.cols)
            /\ Range(S.cols) = Range(E.cols) \cup Range(A.cols) \cup Range(B.cols)
            /\ prev.ret = Stored(obs[1].pre)
            /\ ret[1] = S

\* C3 witness: three different rows, one from the snapshot and one from
\* each append, are stored in that order.
C3_Witness ==
    /\ Followed("append_dataframe", "append_dataframe")
    /\ initial["k1"] # Absent
    /\ LET E == read_parquet(initial["k1"])
           S == Stored(store["k1"])
       IN  /\ Len(E.rows) = 1 /\ Len(prev.df.rows) = 1 /\ Len(call[1].df.rows) = 1
           /\ E.cols = <<"id", "val">>
           /\ prev.df.cols = E.cols /\ call[1].df.cols = E.cols
           /\ E.rows[1] # prev.df.rows[1]
           /\ prev.df.rows[1] # call[1].df.rows[1]
           /\ S.rows = <<E.rows[1], prev.df.rows[1], call[1].df.rows[1]>>

\* C4: download_dataframe after upload_dataframe(D) on the same key
\* returns D: the same columns in the same order, the same rows in the
\* same order.
C4_RoundTrip ==
    Followed("upload_dataframe", "download_dataframe") /\ prev.s3_key = call[1].s3_key
        => ret[1] = prev.df

\* C4 witness: a two-column frame of two different rows has been uploaded
\* over another snapshot and read back.
C4_Witness ==
    /\ Followed("upload_dataframe", "download_dataframe")
    /\ prev.df.cols = <<"id", "val">>
    /\ Len(prev.df.rows) = 2
    /\ prev.df.rows[1] # prev.df.rows[2]
    /\ initial["k1"] # to_parquet(prev.df)
    /\ ret[1] = prev.df

\* ------------------------------------------------------------------------
\* Properties of two callers running together (SpecConc)
\* ------------------------------------------------------------------------

BothReturned == \A p \in Procs : pc[p] = "done"

\* Both callers appended to the same key, and both read the snapshot that
\* was there before either call.
BothAppendedSameSnapshot ==
    /\ BothReturned
    /\ \A p \in Procs : call[p].op = "append_dataframe"
    /\ call[1].s3_key = call[2].s3_key
    /\ \A p \in Procs : obs[p].read \in {"ok", "absent"}
                        /\ obs[p].seen = initial[call[p].s3_key]

\* The rows of the snapshot e followed by those of new_df, in a frame
\* with the columns cols.
RowsThen(e, new_df, cols) == WidenedRows(e, cols) \o WidenedRows(new_df, cols)

\* C5: when two appends to one key both read the snapshot E before either
\* writes, the object ends holding the rows of E followed by the rows of
\* one of the two datasets only; each caller is returned E followed by its
\* own rows.
C5_LastWriterWins ==
    BothAppendedSameSnapshot =>
        LET E == Stored(initial[call[1].s3_key])
            S == Stored(store[call[1].s3_key])
        IN  /\ \E p \in Procs : S.rows = RowsThen(E, call[p].df, S.cols)
            /\ \A p \in Procs : ret[p] # NoneObj
                                /\ ret[p].rows = RowsThen(E, call[p].df, ret[p].cols)

\* C5 witness: both appenders read a one-row snapshot, both wrote, and the
\* row of caller 1 is not in the object.
C5_Witness ==
    /\ BothAppendedSameSnapshot
    /\ initial[call[1].s3_key] # Absent
    /\ \A p \in Procs : obs[p].put = "ok"
    /\ LET E == Stored(initial[call[1].s3_key])
           S == Stored(store[call[1].s3_key])
       IN  /\ Len(E.rows) = 1 /\ Len(call[1].df.rows) = 1 /\ Len(call[2].df.rows) = 1
           /\ E.cols = <<"id", "val">>
           /\ call[1].df.rows[1] # call[2].df.rows[1]
           /\ call[1].df.rows[1] # E.rows[1]
           /\ S.rows = <<E.rows[1], call[2].df.rows[1]>>
           /\ call[1].df.rows[1] \notin Range(S.rows)

\* The frame that the call of p stores when it runs alone on the first
\* content of its key.
Alone(p) ==
    LET c == call[p]
        e == IF initial[c.s3_key] = Absent THEN NoneObj
             ELSE read_parquet(initial[c.s3_key])
    IN  CASE c.op = "upload_dataframe" -> c.df
          [] c.op = "append_dataframe" -> append_combined(e, c.df)
          [] c.op = "upsert_dataframe" -> upsert_combined(e, c.df, c.key_columns)

BothReturnedDifferentKeys == BothReturned /\ call[1].s3_key # call[2].s3_key

\* C6: when two callers write, append or upsert on different keys, then
\* whatever the order of their steps each key ends with the content that
\* its call stores when run alone.
C6_DifferentKeysIndependent ==
    BothReturnedDifferentKeys =>
        \A p \in Procs : store[call[p].s3_key] = to_parquet(Alone(p))

\* C6 witness: an append on one key and an upsert on the other have both
\* returned, and both objects have changed.
C6_Witness ==
    /\ BothReturnedDifferentKeys
    /\ call[1].op = "append_dataframe"
    /\ call[2].op = "upsert_dataframe"
    /\ \A k \in Keys : initial[k] # Absent /\ store[k] # initial[k]
    /\ Stored(store[call[1].s3_key]).rows # Stored(store[call[2].s3_key]).rows

\* ------------------------------------------------------------------------
\* Properties of the file comparison (SpecHeur)
\* ------------------------------------------------------------------------

\* _files_are_equal has returned for a local file that os.stat could read.
Compared == fe.phase = "result" /\ fe.local_stat # NoneObj

\* The content-hash token of the object: its ETag without the quotes.
TokenOf(response) ==
    SubSeq(response.ETag, 2, Len(response.ETag) - 1)

\* C10: _files_are_equal answers false when the object is absent, false
\* when the sizes differ, true when the local size is above 5 MiB, true
\* when the modification times are at most 2 seconds apart, and otherwise
\* true exactly when the local size is below 50 MiB, the token holds no
\* dash, and the local hash was computed and equals the token.
C10_DecisionProcedure ==
    Compared =>
        fe.result =
            IF fe.response = NoneObj THEN FALSE
            ELSE IF fe.local_stat.st_size # fe.response.ContentLength THEN FALSE
            ELSE IF fe.local_stat.st_size > 5 * 1024 * 1024 THEN TRUE
            ELSE IF Abs(fe.local_stat.st_mtime - fe.response.LastModified) <= 2000
                 THEN TRUE
            ELSE /\ fe.local_stat.st_size < 50 * 1024 * 1024
                 /\ \A i \in DOMAIN TokenOf(fe.response) : TokenOf(fe.response)[i] # "-"
                 /\ fe.local_hash # NoHash
                 /\ fe.local_hash = TokenOf(fe.response)

\* C10 witness: a file of exactly 5 MiB, modified exactly 2 seconds from
\* the object, is found equal.
C10_Witness ==
    /\ Compared
    /\ fe.response # NoneObj
    /\ fe.local_stat.st_size = 5 * 1024 * 1024
    /\ fe.response.ContentLength = fe.local_stat.st_size
    /\ Abs(fe.local_stat.st_mtime - fe.response.LastModified) = 2000
    /\ fe.local_hash # NoHash
    /\ fe.local_hash # TokenOf(fe.response)
    /\ fe.result = TRUE

\* _files_are_equal has returned for a local file above 5 MiB and an
\* object of the same length.
ComparedLargeSameLength ==
    /\ Compared
    /\ fe.response # NoneObj
    /\ fe.local_stat.st_size > 5 * 1024 * 1024
    /\ fe.local_stat.st_size = fe.response.ContentLength

\* C11: for a local file above 5 MiB whose length equals the object's,
\* _files_are_equal answers true whatever the modification times, the
\* content and the token are, and does not call _calculate_local_file_hash.
C11_LargeFileSizeOnly ==
    ComparedLargeSameLength => fe.result = TRUE /\ fe.hashed = FALSE

\* C11 witness: a file one byte above 5 MiB, modified more than 2 seconds
\* from the object and with a content hash other than the token, is found
\* equal.
C11_Witness ==
    /\ ComparedLargeSameLength
    /\ fe.local_stat.st_size = 5 * 1024 * 1024 + 1
    /\ Abs(fe.local_stat.st_mtime - fe.response.LastModified) > 2000
    /\ fe.local_hash # NoHash
    /\ fe.local_hash # TokenOf(fe.response)
    /\ fe.result = TRUE

\* ------------------------------------------------------------------------
\* SpecS3: one direct call of a method of S3Uploader, the requests it
\* sends to the client recorded in order
\* ------------------------------------------------------------------------

\* Most files in a directory given to upload_directory.
MaxFiles == 2

OtherBucket == "b2"

\* A request to the boto3 client: the operation and the Bucket and Key (or
\* Prefix) it names.
Request(api, bucket, key) == [api |-> api, Bucket |-> bucket, Key |-> key]

\* How a call ends: the exception that leaves it (or none), the requests
\* sent, whether _files_are_equal was called, and the value returned.
Outcome(raised, requests, consulted, value) ==
    [raised |-> raised, requests |-> requests, consulted |-> consulted,
     ret |-> value]

\* How the client answers a request: it succeeds, raises ClientError, or
\* raises an exception that is not a ClientError.
ClientAnswers == {"ok", "ClientError", "OtherError"}

Escapes_nothing_caught(answer) == IF answer = "ok" THEN "none" ELSE answer

\* What leaves a method that catches ClientError only.
Escapes(answer) == IF answer = "OtherError" THEN "OtherError" ELSE "none"

upload_file_ignores_skip(a, default, answer) ==
    LET bucket == resolve_bucket(a.bucket_name, default)
    IN  IF bucket = None THEN Outcome("ValueError", <<>>, FALSE, None)
        ELSE IF ~a.local_exists THEN Outcome("none", <<>>, FALSE, None)
        ELSE Outcome(Escapes(answer),
                     <<Request("upload_file", bucket, a.s3_key)>>, FALSE, None)

\* S3Uploader.upload_file.
upload_file(a, default, answer) ==
    LET bucket == resolve_bucket(a.bucket_name, default)
        head   == <<Request("head_object", bucket, a.s3_key)>>
        put    == <<Request("upload_file", bucket, a.s3_key)>>
    IN  IF bucket = None THEN Outcome("ValueError", <<>>, FALSE, None)
        ELSE IF ~a.local_exists THEN Outcome("none", <<>>, FALSE, None)
        ELSE IF a.skip_if_exists
             THEN IF files_are_equal(a.local_stat, a.response, a.local_hash)
                  THEN Outcome("none", head, TRUE, None)
                  ELSE Outcome(Escapes(answer), head \o put, TRUE, None)
        ELSE Outcome(Escapes(answer), put, FALSE, None)

RECURSIVE upload_files(_, _, _, _)
\* The loop of upload_directory over the n files found: upload_file for
\* each with the resolved bucket, until one raises.
upload_files(n, a, default, answer) ==
    IF n = 0 THEN Outcome("none", <<>>, FALSE, None)
    ELSE LET first == upload_file(a, default, answer)
         IN  IF first.raised # "none" THEN first
             ELSE LET rest == upload_files(n - 1, a, default, answer)
                  IN  Outcome(rest.raised, first.requests \o rest.requests,
                              first.consulted \/ rest.consulted, None)

\* S3Uploader.upload_directory: local_exists says whether the path is a
\* directory, n_files how many files os.walk finds in it.
upload_directory(a, default, answer) ==
    LET bucket == resolve_bucket(a.bucket_name, default)
    IN  IF bucket = None THEN Outcome("ValueError", <<>>, FALSE, None)
        ELSE IF ~a.local_exists THEN Outcome("none", <<>>, FALSE, None)
        ELSE upload_files(a.n_files, [a EXCEPT !.bucket_name = bucket],
                          default, answer)

\* download_file, list_files, delete_file and create_bucket: resolve the
\* bucket, send one request, catch ClientError.  list_files returns the
\* keys found, or the empty list after a ClientError.
one_request(api, a, default, answer) ==
    LET bucket == resolve_bucket(a.bucket_name, default)
        key    == IF api = "create_bucket" THEN None ELSE a.s3_key
        value  == IF api = "list_objects_v2" /\ answer = "ok" THEN "keys"
                  ELSE IF api = "list_objects_v2" /\ answer = "ClientError" THEN "[]"
                  ELSE None
    IN  IF bucket = None THEN Outcome("ValueError", <<>>, FALSE, None)
        ELSE Outcome(Escapes(answer), <<Request(api, bucket, key)>>, FALSE, value)

S3Ops == {"_resolve_bucket", "upload_file", "upload_directory", "download_file",
          "list_files", "delete_file", "create_bucket"}

\* ParquetUploader.upload_dataframe as its caller sees it: to_parquet,
\* the temporary file and upload_file, every exception caught and printed.
\* df_ok says whether the frame can be built and serialised.
upload_dataframe(a, default, answer) ==
    IF ~a.df_ok THEN Outcome("none", <<>>, FALSE, None)
    ELSE LET up == upload_file([a EXCEPT !.local_exists = TRUE], default, answer)
         IN  Outcome("none", up.requests, up.consulted, None)

\* ParquetUploader.download_dataframe as its caller sees it: the frame, or
\* None after any exception (no bucket, no object, a failed read).
download_dataframe(a, default, answer) ==
    LET bucket == resolve_bucket(a.bucket_name, default)
    IN  IF bucket = None THEN Outcome("none", <<>>, FALSE, None)
        ELSE Outcome("none", <<Request("download_fileobj", bucket, a.s3_key)>>, FALSE,
                     IF answer = "ok" THEN "frame" ELSE None)

\* ParquetUploader.dataframe_to_s3_url: upload_dataframe, then
\* _resolve_bucket outside any try, then the URL.
dataframe_to_s3_url(a, default, answer) ==
    LET up == upload_dataframe(a, default, answer)
    IN  IF resolve_bucket(a.bucket_name, default) = None
        THEN Outcome("ValueError", up.requests, up.consulted, None)
        ELSE Outcome("none", up.requests, up.consulted, "url")

\* ParquetUploader.append_dataframe as its caller sees it: the read, the
\* write without skip_if_exists, and the frame returned.
append_dataframe(a, default, answer) ==
    LET down == download_dataframe(a, default, answer)
        up   == upload_dataframe([a EXCEPT !.skip_if_exists = FALSE], default, answer)
    IN  Outcome("none", down.requests \o up.requests, up.consulted, "frame")

\* ParquetUploader.upsert_dataframe as its caller sees it: _resolve_bucket
\* inside the outer try (None when it raises), then as append_dataframe.
upsert_dataframe(a, default, answer) ==
    IF resolve_bucket(a.bucket_name, default) = None
    THEN Outcome("none", <<>>, FALSE, None)
    ELSE append_dataframe(a, default, answer)

\* The public methods of ParquetUploader.
ParquetOps == {"upload_dataframe", "upload_tuples", "download_dataframe",
               "dataframe_to_s3_url", "append_dataframe", "upsert_dataframe"}

\* The method named by a.op, called with the arguments a.
s3_call(a, default, answer) ==
    CASE a.op = "_resolve_bucket" ->
            LET bucket == resolve_bucket(a.bucket_name, default)
            IN  Outcome(IF bucket = None THEN "ValueError" ELSE "none",
                        <<>>, FALSE, bucket)
      [] a.op = "upload_file"      -> upload_file(a, default, answer)
      [] a.op = "upload_directory" -> upload_directory(a, default, answer)
      [] a.op = "download_file"    -> one_request("download_file", a, default, answer)
      [] a.op = "list_files"       -> one_request("list_objects_v2", a, default, answer)
      [] a.op = "delete_file"      -> one_request("delete_object", a, default, answer)
      [] a.op = "create_bucket"    -> one_request("create_bucket", a, default, answer)
      [] a.op = "upload_dataframe" -> upload_dataframe(a, default, answer)
      [] a.op = "upload_tuples"    -> upload_dataframe(a, default, answer)
      [] a.op = "download_dataframe" -> download_dataframe(a, default, answer)
      [] a.op = "dataframe_to_s3_url" -> dataframe_to_s3_url(a, default, answer)
      [] a.op = "append_dataframe" -> append_dataframe(a, default, answer)
      [] a.op = "upsert_dataframe" -> upsert_dataframe(a, default, answer)

\* head_object answers for a local file of one byte written at second 10.
S3Responses ==
    {NoneObj} \cup
    {[ContentLength |-> n, ETag |-> <<Quote>> \o t \o <<Quote>>, LastModified |-> m] :
        n \in {1, 5 * MiB}, t \in {<<"a", "b">>}, m \in {Seconds(10), Seconds(12) + 1}}

S3Args ==
    [phase : {"args"}, op : S3Ops \cup ParquetOps,
     bucket_name : {None, Bucket, OtherBucket},
     s3_key : {"k1"}, local_exists : BOOLEAN, skip_if_exists : BOOLEAN, df_ok : BOOLEAN,
     local_stat : {[st_size |-> 1, st_mtime |-> Seconds(10)]},
     response : S3Responses, local_hash : Digests, n_files : 0..MaxFiles,
     answer : {"none"}, result : {NoEval}]

InitS3 ==
    /\ default_bucket \in {None, Bucket}
    /\ store = [k \in Keys |-> Absent]
    /\ initial = store
    /\ InitProcs
    /\ fe = NoEval
    /\ pg = NoEval
    /\ s3 \in S3Args

\* One call of the method, the client answering its requests in one way.
S3Call ==
    /\ s3.phase = "args"
    /\ \E answer \in ClientAnswers :
          s3' = [s3 EXCEPT !.phase = "result", !.answer = answer,
                           !.result = s3_call(s3, default_bucket, answer)]
    /\ UNCHANGED <<default_bucket, store, pc, call, existing_df, upload_df, ret,
                   obs, prev, initial, fe, pg>>

NextS3 == S3Call

SpecS3 == InitS3 /\ [][NextS3]_vars

\* ------------------------------------------------------------------------
\* Properties of a direct S3Uploader call (SpecS3)
\* ------------------------------------------------------------------------

\* The method op of S3Uploader has been called and has ended.
S3Returned(op) == s3.phase = "result" /\ s3.op = op

\* The puts among the requests of the call.
PutsSent == SeqFilter(s3.result.requests,
                      {r \in Range(s3.result.requests) : r.api = "upload_file"})

\* The skip test of upload_file holds for the arguments of the call.
UpToDate ==
    s3.skip_if_exists /\ files_are_equal(s3.local_stat, s3.response, s3.local_hash)

ExpectedBucket ==
    IF s3.bucket_name # None THEN s3.bucket_name ELSE default_bucket

\* C13: _resolve_bucket returns the bucket argument when one is given,
\* else the default bucket, and raises ValueError when there is neither;
\* every request of every S3Uploader method names that bucket, and no
\* request is sent when there is none.
C13_ResolvedBucketAddressed ==
    s3.phase = "result" /\ s3.op \in S3Ops =>
        IF ExpectedBucket = None
        THEN s3.result.raised = "ValueError" /\ s3.result.requests = <<>>
        ELSE /\ s3.result.raised # "ValueError"
             /\ \A i \in DOMAIN s3.result.requests :
                   s3.result.requests[i].Bucket = ExpectedBucket
             /\ s3.op = "_resolve_bucket" => s3.result.ret = ExpectedBucket

\* C13 witness: with a default bucket configured, upload_directory called
\* with another bucket has sent a head and a put for each of two files,
\* all to the bucket of the call.
C13_Witness ==
    /\ S3Returned("upload_directory")
    /\ default_bucket = Bucket
    /\ s3.bucket_name = OtherBucket
    /\ Len(s3.result.requests) = 4
    /\ \A i \in DOMAIN s3.result.requests : s3.result.requests[i].Bucket = OtherBucket

\* ------------------------------------------------------------------------
\* Postgres connectors: datasets, and the records sent for them
\* ------------------------------------------------------------------------

\* Most rows of a dataset given to a connector.
MaxPgRows == 3

\* A DataFrame with its row index: the index has a name (None when it has
\* none) and one value per row; the cell of column c in row i is <<c, i>>.
PgFrame(cols, index_name, n) ==
    [cols |-> cols, index_name |-> index_name,
     index |-> [i \in 1..n |-> i],
     rows |-> [i \in 1..n |-> [c \in Range(cols) |-> <<c, i>>]]]

PgFrames ==
    {PgFrame(cols, name, n) :
        cols \in {<<>>, <<"val">>, <<"id", "val">>},
        name \in {None, "id", "wrong_id"},
        n \in 0..MaxPgRows}

df_empty_never(df) == FALSE

\* DataFrame.empty: some axis has length 0.
df_empty(df) == Len(df.index) = 0 \/ df.cols = <<>>

\* df.itertuples(index=False, name=None): one tuple per row, the cells in
\* column order.
itertuples(df) ==
    [i \in DOMAIN df.rows |-> [j \in DOMAIN df.cols |-> df.rows[i][df.cols[j]]]]

\* upsert_dataframe_with_ids: [col for col in df.columns if col != id_column]
data_columns(df, id_column) == SeqFilter(df.cols, Range(df.cols) \ {id_column})

\* df.reset_index()[[id_column] + data_columns].to_records(index=False):
\* the index value and then the cells of the data columns.
with_ids_records(df, id_column) ==
    [i \in DOMAIN df.rows |->
        <<df.index[i]>> \o
        [j \in DOMAIN data_columns(df, id_column) |->
            df.rows[i][data_columns(df, id_column)[j]]]]

Min(a, b) == IF a < b THEN a ELSE b

islice_one_short(records, pos, batch_size) ==
    SubSeq(records, pos + 1, Min(pos + batch_size, Len(records)) - 1)

\* list(islice(records, batch_size)) on an iterator that has given pos
\* records already.
islice(records, pos, batch_size) ==
    SubSeq(records, pos + 1, Min(pos + batch_size, Len(records)))

\* records[i:j]
slice(records, i, j) == SubSeq(records, i + 1, Min(j, Len(records)))

with_ids_precheck_no_index_check(df, id_column) ==
    IF df_empty(df) THEN "return 0" ELSE "go on"

\* The first two tests of upsert_dataframe_with_ids, in their order.
with_ids_precheck(df, id_column) ==
    IF df_empty(df) THEN "return 0"
    ELSE IF df.index_name # id_column THEN "ValueError"
    ELSE "go on"

rolled_back_keeps_pending(committed, pending) == committed \o pending

\* The committed rows after a rollback (conn.rollback(), or the exit of
\* "async with conn.transaction()" on an exception): what the
\* transaction wrote is gone.
rolled_back(committed, pending) == committed

\* ------------------------------------------------------------------------
\* SpecPg: one call of a method of SyncPostgresConnector or
\* AsyncPostgresConnector, one database call at a time
\* ------------------------------------------------------------------------

BatchSizes == {1, 2}

\* An integer returned by a method.
RetInt(n) == [int |-> n]

\* The rows returned by execute_query(fetch=True).
RetData(with_columns) == [data |-> "rows", column_names |-> with_columns]

PgBulkOps == {"insert_dataframe", "insert_dataframe_executemany",
              "upsert_dataframe", "upsert_dataframe_with_ids"}

\* The conflict_columns a caller of upsert_dataframe passes: columns of the
\* dataset, or a column of the table that the dataset does not hold.
ConflictColumnChoices == {<<"id">>, <<"val">>, <<"val", "id">>, <<"key">>}

\* A list given for update_columns.
Given(list) == [list |-> list]

\* The update_columns a caller of upsert_dataframe passes: None (the
\* default) or a list, which may be empty or name a conflict column.
UpdateColumnChoices == {NoneObj, Given(<<>>), Given(<<"val">>), Given(<<"val", "id">>)}

update_columns_default_all(columns, conflict_columns, update_columns) ==
    IF update_columns = NoneObj THEN columns ELSE update_columns.list

\* upsert_dataframe: the columns of the SET clause.  "if update_columns is
\* None" fills in the columns of the dataset that are no conflict column,
\* in the order of the dataset; a list that is given is taken as it is.
update_columns_or_default(columns, conflict_columns, update_columns) ==
    IF update_columns = NoneObj
    THEN SeqFilter(columns, Range(columns) \ Range(conflict_columns))
    ELSE update_columns.list

\* The statement upsert_dataframe builds: INSERT INTO table (columns) ...
\* ON CONFLICT (conflict_columns) DO UPDATE SET c = EXCLUDED.c for each c of
\* update_set.
upsert_query(columns, conflict_columns, update_columns) ==
    [insert |-> columns, conflict |-> conflict_columns,
     update_set |-> update_columns_or_default(columns, conflict_columns,
                                             update_columns)]

\* The calls: execute_query of the sync connector (writes are the rows the
\* statement writes; params_list says whether that keyword is passed), and
\* the bulk methods of both connectors.
PgCalls ==
    [kind : {"sync"}, op : {"execute_query"}, df : {NoneObj},
     batch_size : {1}, id_column : {None}, fetch : BOOLEAN,
     with_columns : BOOLEAN, params_list : BOOLEAN,
     writes : {<<>>, <<<<"w">>>>},
     conflict_columns : {<<>>}, update_columns : {NoneObj}]
    \cup
    [kind : {"sync"}, op : {"insert_dataframe"}, df : PgFrames,
     batch_size : BatchSizes, id_column : {None}, fetch : {FALSE},
     with_columns : {FALSE}, params_list : {FALSE}, writes : {<<>>},
     conflict_columns : {<<>>}, update_columns : {NoneObj}]
    \cup
    [kind : {"async"}, op : {"insert_dataframe", "insert_dataframe_executemany"},
     df : PgFrames,
     batch_size : BatchSizes, id_column : {None}, fetch : {FALSE},
     with_columns : {FALSE}, params_list : {FALSE}, writes : {<<>>},
     conflict_columns : {<<>>}, update_columns : {NoneObj}]
    \cup
    [kind : {"async"}, op : {"upsert_dataframe"}, df : PgFrames,
     batch_size : BatchSizes, id_column : {None}, fetch : {FALSE},
     with_columns : {FALSE}, params_list : {FALSE}, writes : {<<>>},
     conflict_columns : ConflictColumnChoices, update_columns : UpdateColumnChoices]
    \cup
    [kind : {"async"}, op : {"upsert_dataframe_with_ids"}, df : PgFrames,
     batch_size : BatchSizes, id_column : {"id"}, fetch : {FALSE},
     with_columns : {FALSE}, params_list : {FALSE}, writes : {<<>>},
     conflict_columns : {<<>>}, update_columns : {NoneObj}]

\* The connector before a call: conn is None or an open connection; the
\* table holds one committed row; nothing is pending.
PgIdle(conn) ==
    [conn |-> conn, committed |-> <<<<"old">>>>, before |-> <<<<"old">>>>,
     pending |-> <<>>, in_tx |-> FALSE, aborted |-> FALSE,
     log |-> <<>>, batches |-> <<>>, batch |-> <<>>, in_flight |-> 0,
     stmt |-> "none", query |-> NoneObj,
     pcp |-> "idle", c |-> NoCall, records |-> <<>>, pos |-> 0, i |-> 0,
     total |-> 0, ret |-> NoneObj, raised |-> "none"]

InitPg ==
    /\ default_bucket = Bucket
    /\ store = [k \in Keys |-> Absent]
    /\ initial = store
    /\ InitProcs
    /\ fe = NoEval
    /\ s3 = NoEval
    /\ pg \in {PgIdle(conn) : conn \in {"none", "open"}}

PgRest == <<default_bucket, store, pc, call, existing_df, upload_df, ret, obs,
            prev, initial, fe, s3>>

\* The call ends by returning value.
PgReturn(p, value) == [p EXCEPT !.ret = value, !.pcp = "done"]

\* The call ends with the exception err leaving it.
PgRaise(p, err) == [p EXCEPT !.raised = err, !.pcp = "done"]

\* "except Exception" of the sync connector: conn.rollback(), log, raise.
SyncHandler(p, err) ==
    PgRaise([p EXCEPT !.log = @ \o <<"rollback">>,
                      !.committed = rolled_back(@, p.pending),
                      !.pending = <<>>, !.in_tx = FALSE, !.aborted = FALSE],
            err)

\* A method is entered; everything it does before its first database call.
\* execute_query has no parameter params_list, so a call that passes it
\* ends with TypeError before the body runs.
PgBegin(c) ==
    /\ pg.pcp = "idle"
    /\ LET p == [pg EXCEPT !.c = c]
       IN  pg' =
             IF c.op = "execute_query"
             THEN IF c.params_list THEN PgRaise(p, "TypeError")
                  ELSE [p EXCEPT !.pcp = "cursor"]
             ELSE IF c.op = "upsert_dataframe_with_ids"
             THEN CASE with_ids_precheck(c.df, c.id_column) = "return 0" ->
                          PgReturn(p, RetInt(0))
                    [] with_ids_precheck(c.df, c.id_column) = "ValueError" ->
                          PgRaise(p, "ValueError")
                    [] OTHER ->
                          IF c.id_column \in Range(c.df.cols)
                          THEN PgRaise(p, "ValueError")
                          ELSE [p EXCEPT !.records = with_ids_records(c.df, c.id_column),
                                         !.pcp = "transaction"]
             ELSE IF df_empty(c.df) THEN PgReturn(p, RetInt(0))
             ELSE IF c.kind = "sync" THEN [p EXCEPT !.pcp = "cursor"]
             ELSE IF c.op = "insert_dataframe" THEN [p EXCEPT !.pcp = "copy"]
             ELSE [p EXCEPT !.records = itertuples(c.df), !.pcp = "transaction",
                            !.query = IF c.op = "upsert_dataframe"
                                      THEN upsert_query(c.df.cols, c.conflict_columns,
                                                        c.update_columns)
                                      ELSE NoneObj]
    /\ UNCHANGED PgRest

\* self.conn.cursor() of the sync connector.  On a connector that never
\* connected self.conn is None: AttributeError, and the handler's
\* self.conn.rollback() raises AttributeError in its turn.
PgCursor ==
    /\ pg.pcp = "cursor"
    /\ pg' = IF pg.conn = "none" THEN PgRaise(pg, "AttributeError")
             ELSE IF pg.c.op = "execute_query"
             THEN [pg EXCEPT !.log = @ \o <<"cursor">>, !.pcp = "execute"]
             ELSE [pg EXCEPT !.log = @ \o <<"cursor">>,
                             !.records = itertuples(pg.c.df),
                             !.pcp = IF pg.c.df.rows = <<>> THEN "commit" ELSE "page"]
    /\ UNCHANGED PgRest

after_execute_always_commits(fetch) == "commit"

\* What execute_query does once cursor.execute has succeeded: "if fetch"
\* goes on to fetchall and the return of the rows, the else branch to
\* conn.commit().
after_execute(fetch) == IF fetch THEN "fetch" ELSE "commit"

\* cursor.execute of execute_query: it succeeds, raises UndefinedColumn
\* (logged and raised again, with no rollback), or raises something else
\* (rollback, log, raise).
PgExecute ==
    /\ pg.pcp = "execute"
    /\ \E answer \in {"ok", "UndefinedColumn", "Error"} :
          LET p == [pg EXCEPT !.log = @ \o <<"execute">>, !.in_tx = TRUE,
                              !.stmt = answer]
          IN  pg' = CASE answer = "ok" ->
                           [p EXCEPT !.pending = @ \o pg.c.writes,
                                     !.pcp = after_execute(pg.c.fetch)]
                      [] answer = "UndefinedColumn" ->
                           PgRaise([p EXCEPT !.aborted = TRUE], "UndefinedColumn")
                      [] answer = "Error" -> SyncHandler(p, "Error")
    /\ UNCHANGED PgRest

\* cursor.fetchall of execute_query(fetch=True), and the return of the rows.
PgFetch ==
    /\ pg.pcp = "fetch"
    /\ \E answer \in {"ok", "Error"} :
          LET p == [pg EXCEPT !.log = @ \o <<"fetchall">>]
          IN  pg' = IF answer = "ok" THEN PgReturn(p, RetData(pg.c.with_columns))
                    ELSE SyncHandler(p, "Error")
    /\ UNCHANGED PgRest

\* One page of execute_batch in the sync insert_dataframe.
PgPage ==
    /\ pg.pcp = "page"
    /\ \E answer \in {"ok", "Error"} :
          LET batch == islice(pg.records, pg.pos, pg.c.batch_size)
              p == [pg EXCEPT !.log = @ \o <<"execute_batch">>, !.in_tx = TRUE]
          IN  pg' = IF answer = "ok"
                    THEN [p EXCEPT !.pending = @ \o batch,
                                   !.pos = @ + pg.c.batch_size,
                                   !.pcp = IF pg.pos + pg.c.batch_size >= Len(pg.records)
                                           THEN "commit" ELSE "page"]
                    ELSE SyncHandler(p, "Error")
    /\ UNCHANGED PgRest

\* self.conn.commit() of the sync connector, and the return after it.
PgCommit ==
    /\ pg.pcp = "commit"
    /\ \E answer \in {"ok", "Error"} :
          pg' = IF answer = "ok"
                THEN PgReturn([pg EXCEPT !.log = @ \o <<"commit">>,
                                         !.committed = @ \o pg.pending,
                                         !.pending = <<>>, !.in_tx = FALSE],
                              IF pg.c.op = "execute_query" THEN NoneObj
                              ELSE RetInt(Len(pg.c.df.index)))
                ELSE SyncHandler([pg EXCEPT !.log = @ \o <<"commit failed">>], "Error")
    /\ UNCHANGED PgRest

\* "async with self.conn.transaction()" is entered.  With self.conn None
\* this is an AttributeError, logged and raised again.
PgTransaction ==
    /\ pg.pcp = "transaction"
    /\ pg' = IF pg.conn = "none" THEN PgRaise(pg, "AttributeError")
             ELSE [pg EXCEPT !.log = @ \o <<"transaction">>, !.in_tx = TRUE,
                             !.pcp = IF pg.records = <<>> THEN "end" ELSE "batch"]
    /\ UNCHANGED PgRest

\* The turn of the batch loop after a batch has completed: the loop goes
\* on while range(0, n, batch_size) has a next value, then the block ends.
next_turn(i, b, n) == IF i + b >= n THEN "end" ELSE "batch"

executemany_not_awaited(p, batch) ==
    [p EXCEPT !.log = @ \o <<"executemany">>,
              !.batch = batch,
              !.pos = @ + Len(batch),
              !.i = IF next_turn(p.i, p.c.batch_size, Len(p.c.df.index)) = "batch"
                    THEN @ + p.c.batch_size ELSE @,
              !.in_flight = @ + 1,
              !.pcp = IF next_turn(p.i, p.c.batch_size, Len(p.c.df.index)) = "batch"
                      THEN "batch" ELSE "await"]

\* "await self.conn.executemany(query, batch)": the batch is sent and the
\* method waits for it before it does anything else.
executemany(p, batch) ==
    [p EXCEPT !.log = @ \o <<"executemany">>,
              !.batch = batch,
              !.pos = @ + Len(batch),
              !.in_flight = @ + 1,
              !.pcp = "await"]

\* One turn of the batch loop: the batch is taken from the records and
\* sent with executemany.
PgBatch ==
    /\ pg.pcp = "batch"
    /\ LET b == pg.c.batch_size
           batch == IF pg.c.op = "upsert_dataframe_with_ids"
                    THEN slice(pg.records, pg.i, pg.i + b)
                    ELSE islice(pg.records, pg.pos, b)
       IN  pg' = executemany(pg, batch)
    /\ UNCHANGED PgRest

\* The batch that was sent completes.  When it succeeded the loop takes
\* its next turn; when it failed the transaction block is left with the
\* exception and rolls back.
PgBatchDone ==
    /\ pg.pcp = "await"
    /\ \E answer \in {"ok", "Error"} :
          LET b == pg.c.batch_size
              p == [pg EXCEPT !.in_flight = @ - 1]
          IN  pg' = IF answer = "ok"
                    THEN [p EXCEPT !.log = @ \o <<"executemany done">>,
                                   !.batches = @ \o <<pg.batch>>,
                                   !.pending = @ \o pg.batch,
                                   !.total = @ + Len(pg.batch),
                                   !.i = @ + b,
                                   !.pcp = next_turn(pg.i, b, Len(pg.c.df.index))]
                    ELSE PgRaise([p EXCEPT !.log = @ \o <<"transaction rollback">>,
                                           !.committed = rolled_back(@, pg.pending),
                                           !.pending = <<>>, !.in_tx = FALSE],
                                 "Error")
    /\ UNCHANGED PgRest

\* The transaction block is left after the loop: it commits, and the
\* method returns total; or the commit fails and nothing is kept.
PgEndTransaction ==
    /\ pg.pcp = "end"
    /\ \E answer \in {"ok", "Error"} :
          pg' = IF answer = "ok"
                THEN PgReturn([pg EXCEPT !.log = @ \o <<"transaction commit">>,
                                         !.committed = @ \o pg.pending,
                                         !.pending = <<>>, !.in_tx = FALSE],
                              RetInt(pg.total))
                ELSE PgRaise([pg EXCEPT !.log = @ \o <<"transaction commit failed">>,
                                        !.committed = rolled_back(@, pg.pending),
                                        !.pending = <<>>, !.in_tx = FALSE],
                             "Error")
    /\ UNCHANGED PgRest

\* conn.copy_to_table of the async insert_dataframe: one statement outside
\* any transaction block, so it is committed as soon as it succeeds.
PgCopy ==
    /\ pg.pcp = "copy"
    /\ \E answer \in {"ok", "Error"} :
          pg' = IF pg.conn = "none" THEN PgRaise(pg, "AttributeError")
                ELSE IF answer = "ok"
                THEN PgReturn([pg EXCEPT !.log = @ \o <<"copy_to_table">>,
                                         !.committed = @ \o itertuples(pg.c.df)],
                              RetInt(Len(pg.c.df.index)))
                ELSE PgRaise([pg EXCEPT !.log = @ \o <<"copy_to_table">>], "Error")
    /\ UNCHANGED PgRest

NextPg ==
    \/ \E c \in PgCalls : PgBegin(c)
    \/ PgCursor
    \/ PgExecute
    \/ PgFetch
    \/ PgPage
    \/ PgCommit
    \/ PgTransaction
    \/ PgBatch
    \/ PgBatchDone
    \/ PgEndTransaction
    \/ PgCopy

SpecPg == InitPg /\ [][NextPg]_vars

\* ------------------------------------------------------------------------
\* Properties of a connector call (SpecPg)
\* ------------------------------------------------------------------------

\* The method op of a connector of the given kind has ended.
PgEnded(kind, op) == pg.pcp = "done" /\ pg.c.kind = kind /\ pg.c.op = op

\* A bulk method of either connector has ended.
PgBulkEnded == pg.pcp = "done" /\ pg.c.op \in PgBulkOps

\* The sync execute_query, called without params_list on an open
\* connection, has ended with an exception raised by the statement.
ExecuteFailed ==
    /\ PgEnded("sync", "execute_query")
    /\ ~pg.c.params_list
    /\ pg.conn = "open"
    /\ "execute" \in Range(pg.log)
    /\ pg.raised # "none"

\* C14: whenever the sync execute_query ends with a failure of its
\* statement, the transaction has been rolled back (rollback was called and
\* no transaction is left open or aborted) and the failure is raised.
C14_FailureRollsBack ==
    ExecuteFailed =>
        /\ "rollback" \in Range(pg.log)
        /\ ~pg.in_tx
        /\ ~pg.aborted

\* C15: the sync execute_query on a connector that never connected raises
\* RuntimeError ("Database connection is not established").
C15_NoConnectionRuntimeError ==
    PgEnded("sync", "execute_query") /\ ~pg.c.params_list /\ pg.conn = "none"
        => pg.raised = "RuntimeError"

\* C16: the sync execute_query called with params_list runs the query
\* through executemany exactly once and then commits exactly once.
C16_ParamsListExecutemany ==
    PgEnded("sync", "execute_query") /\ pg.c.params_list /\ pg.conn = "open"
        => /\ pg.raised = "none"
           /\ Count(pg.log, "executemany") = 1
           /\ Count(pg.log, "commit") = 1

\* A bulk method has ended for a dataset that is empty (no rows, or no
\* columns).
BulkOfEmpty ==
    /\ PgBulkEnded
    /\ (pg.c.df.rows = <<>> \/ pg.c.df.cols = <<>>)

\* C17: every bulk method given an empty dataset returns 0, raises
\* nothing and makes no database call, with or without a connection; the
\* table is as it was.
C17_EmptyReturnsZero ==
    BulkOfEmpty =>
        /\ pg.ret = RetInt(0)
        /\ pg.raised = "none"
        /\ pg.log = <<>>
        /\ pg.committed = pg.before
        /\ ~pg.in_tx

\* C17 witness: upsert_dataframe_with_ids of a dataset with no rows, on a
\* connector that never connected, has returned 0.
C17_Witness ==
    /\ BulkOfEmpty
    /\ pg.c.op = "upsert_dataframe_with_ids"
    /\ pg.c.df.rows = <<>>
    /\ pg.conn = "none"
    /\ pg.ret = RetInt(0)

RECURSIVE Flatten(_)
\* The batches one after the other.
Flatten(batches) ==
    IF batches = <<>> THEN <<>> ELSE Head(batches) \o Flatten(Tail(batches))

\* The records of the dataset of the call, in row order: the cells in
\* column order, after the index value for upsert_dataframe_with_ids.
RowsOfCall ==
    LET df == pg.c.df
    IN  [i \in 1..Len(df.index) |->
            (IF pg.c.op = "upsert_dataframe_with_ids" THEN <<i>> ELSE <<>>)
            \o [j \in DOMAIN df.cols |-> <<df.cols[j], i>>]]

\* A batched method of the async connector has returned without an
\* exception for a dataset of at least one row.
BatchedReturned ==
    /\ pg.pcp = "done"
    /\ pg.c.kind = "async"
    /\ pg.c.op \in {"insert_dataframe_executemany", "upsert_dataframe",
                    "upsert_dataframe_with_ids"}
    /\ pg.raised = "none"
    /\ Len(pg.c.df.index) >= 1

\* The batches sent are those of n rows with batch size b: ceil(n/b) of
\* them, none longer than b, together the rows of the dataset in order;
\* and n is returned.
BatchesAreTheRows ==
    LET n == Len(pg.c.df.index)
        b == pg.c.batch_size
    IN  /\ Len(pg.batches) = (n + b - 1) \div b
        /\ \A k \in DOMAIN pg.batches : Len(pg.batches[k]) <= b
        /\ Flatten(pg.batches) = RowsOfCall
        /\ pg.ret = RetInt(n)

\* C18 as claimed: for a dataset of n >= 1 rows the batched methods send
\* ceil(n/b) batches of at most b rows, together exactly the rows in
\* order, and return n.
C18_BatchesCoverRows == BatchedReturned => BatchesAreTheRows

\* C18 as amended: this holds for a dataset of n >= 1 rows that has at
\* least one column; a dataset without columns counts as empty whatever
\* its rows, nothing is sent for it and 0 is returned.
C18_BatchesCoverRowsWithColumns ==
    BatchedReturned =>
        IF pg.c.df.cols # <<>> THEN BatchesAreTheRows
        ELSE pg.batches = <<>> /\ pg.ret = RetInt(0) /\ pg.log = <<>>

\* C18 witness: three rows were sent in batches of two: one batch of two
\* rows and one of one.
C18_Witness ==
    /\ BatchedReturned
    /\ pg.c.df.cols # <<>>
    /\ Len(pg.c.df.index) = 3
    /\ pg.c.batch_size = 2
    /\ Len(pg.batches) = 2
    /\ Len(pg.batches[1]) = 2 /\ Len(pg.batches[2]) = 1
    /\ pg.ret = RetInt(3)

\* A bulk method has ended with an exception.
BulkFailed == PgBulkEnded /\ pg.raised # "none"

\* C19: when a bulk method fails, the exception reaches the caller and the
\* table holds what it held before the call, with no transaction left
\* open; the sync loader on an open connection has called rollback once,
\* last of all, and no commit of it has succeeded.
C19_FailureCommitsNothing ==
    BulkFailed =>
        /\ pg.ret = NoneObj
        /\ pg.committed = pg.before
        /\ pg.pending = <<>>
        /\ ~pg.in_tx
        /\ pg.c.kind = "sync" /\ pg.conn = "open" =>
              /\ Count(pg.log, "rollback") = 1
              /\ pg.log[Len(pg.log)] = "rollback"
              /\ Count(pg.log, "commit") = 0
        /\ pg.c.kind = "async" /\ pg.batches # <<>> =>
              /\ Count(pg.log, "transaction") = 1
              /\ Count(pg.log, "transaction commit") = 0

\* C19 witness: the async upsert_dataframe sent one batch and failed on
\* the next; the row of the first batch is not in the table.
C19_Witness ==
    /\ BulkFailed
    /\ pg.c.op = "upsert_dataframe"
    /\ Len(pg.batches) = 1
    /\ Len(pg.batches[1]) >= 1
    /\ Count(pg.log, "executemany") = 2
    /\ pg.raised = "Error"
    /\ pg.committed = pg.before

\* upsert_dataframe_with_ids has ended for a dataset whose index is not
\* named id_column.
WithIdsWrongIndex ==
    /\ PgEnded("async", "upsert_dataframe_with_ids")
    /\ pg.c.df.index_name # pg.c.id_column

\* C20 as claimed: for every dataset whose index name differs from
\* id_column, upsert_dataframe_with_ids raises ValueError before any
\* database call.
C20_WrongIndexRaises ==
    WithIdsWrongIndex => pg.raised = "ValueError" /\ pg.log = <<>>

\* C20 as amended: it does so for every such dataset that is not empty;
\* for an empty one it returns 0 without looking at the index name.
C20_WrongIndexRaisesUnlessEmpty ==
    WithIdsWrongIndex =>
        /\ pg.log = <<>>
        /\ IF pg.c.df.rows = <<>> \/ pg.c.df.cols = <<>>
           THEN pg.raised = "none" /\ pg.ret = RetInt(0)
           ELSE pg.raised = "ValueError" /\ pg.ret = NoneObj

\* C20 witness: a dataset of two rows with the index named wrong_id was
\* refused on an open connection, nothing sent.
C20_Witness ==
    /\ WithIdsWrongIndex
    /\ pg.conn = "open"
    /\ pg.c.df.index_name = "wrong_id"
    /\ pg.c.df.cols = <<"val">>
    /\ Len(pg.c.df.index) = 2
    /\ pg.raised = "ValueError"
    /\ pg.log = <<>>

\* ------------------------------------------------------------------------
\* Properties of one Parquet call: release of the temporary file, rows of
\* the existing snapshot, and what a returned frame says about the store
\* (Spec)
\* ------------------------------------------------------------------------

\* C22: when upload_dataframe returns, the temporary file it wrote is gone,
\* whether the put was made, was skipped, or upload_file raised.
C22_TempFileDeleted ==
    Returned("upload_dataframe") => ~obs[1].tmp_left

\* append_dataframe or upsert_dataframe has returned from a call that
\* started with an object at the key.
WriteOntoPresent ==
    /\ pc[1] = "done"
    /\ call[1].op \in {"append_dataframe", "upsert_dataframe"}
    /\ obs[1].pre # Absent

\* The rows of the snapshot E that the call is to keep: all of them for
\* append, those whose key occurs in no row of the new dataset for upsert
\* (all of them when a key column is missing on either side).
RowsToKeep(E) ==
    LET c == call[1]
    IN  IF c.op = "upsert_dataframe" /\ HasColumns(E, c.key_columns)
                                    /\ HasColumns(c.df, c.key_columns)
        THEN SeqFilter(E.rows,
                       {r \in Range(E.rows) :
                           KeyOf(r, c.key_columns) \notin KeysIn(c.df, c.key_columns)})
        ELSE E.rows

\* C26: after an append or upsert onto an existing snapshot, the object
\* still holds every row of the snapshot that the operation keeps, each at
\* least as often as before, however the read of the snapshot went.
C26_ExistingRowsKept ==
    WriteOntoPresent =>
        LET kept == RowsToKeep(read_parquet(obs[1].pre))
            S == Stored(store["k1"])
        IN  \A r \in Range(kept) : Count(S.rows, Widen(r, S.cols)) >= Count(kept, r)

\* append_dataframe or upsert_dataframe has returned a frame.
ReturnedFrame ==
    /\ pc[1] = "done"
    /\ call[1].op \in {"append_dataframe", "upsert_dataframe"}
    /\ ret[1] # NoneObj

\* C27 as stated: whenever append or upsert returns a frame, the object at
\* the key holds exactly that frame.
C27_ReturnedIsStored ==
    ReturnedFrame =>
        /\ store["k1"] # Absent
        /\ read_parquet(store["k1"]) = ret[1]

\* C27, amended: the frame append or upsert returns is the frame it handed
\* to the write; the object holds exactly it when the put succeeded, and
\* is what it was before the call when the put failed, was skipped or was
\* never reached, in which case the frame is returned all the same.
C27_ReturnedIsHandedOver ==
    ReturnedFrame =>
        /\ ret[1] = upload_df[1]
        /\ obs[1].put = "ok" =>
              store["k1"] # Absent /\ read_parquet(store["k1"]) = ret[1]
        /\ obs[1].put # "ok" => store["k1"] = obs[1].pre

\* C27 witness: an append onto an existing snapshot returned the combined
\* frame although the put raised, and the object does not hold it.
C27_Witness ==
    /\ ReturnedFrame
    /\ call[1].op = "append_dataframe"
    /\ obs[1].read = "ok"
    /\ obs[1].put \in {"client_error", "error"}
    /\ Len(call[1].df.rows) > 0
    /\ ret[1] = concat(existing_df[1], call[1].df)
    /\ read_parquet(store["k1"]) # ret[1]

\* ------------------------------------------------------------------------
\* The limits of the file comparison (SpecHeur)
\* ------------------------------------------------------------------------

\* _files_are_equal has returned for a local file and an object of the
\* same length.
ComparedSameLength ==
    /\ Compared
    /\ fe.response # NoneObj
    /\ fe.local_stat.st_size = fe.response.ContentLength

\* The distance between the two modification times, in milliseconds.
TimeDiff == Abs(fe.local_stat.st_mtime - fe.response.LastModified)

\* The local hash was computed and is the object's token, a plain digest.
HashAgrees ==
    /\ fe.local_hash # NoHash
    /\ \A i \in DOMAIN TokenOf(fe.response) : TokenOf(fe.response)[i] # "-"
    /\ fe.local_hash = TokenOf(fe.response)

\* C30: a file of exactly 5 MiB is not answered on its size: it is equal
\* within 2 seconds, and otherwise hashed and equal exactly when the hash
\* agrees.  A file of at most 5 MiB whose time differs by exactly 2 seconds
\* is equal, without a hash.  Every file that comes to the 50 MiB test is at
\* most 5 MiB, so the test lets it through and it is hashed.
C30_ThresholdBounds ==
    ComparedSameLength =>
        /\ fe.local_stat.st_size = 5 * 1024 * 1024 =>
              /\ fe.hashed = (TimeDiff > 2000)
              /\ fe.result = (TimeDiff <= 2000 \/ HashAgrees)
        /\ fe.local_stat.st_size <= 5 * 1024 * 1024 /\ TimeDiff = 2000 =>
              fe.result = TRUE /\ fe.hashed = FALSE
        /\ fe.reached =>
              /\ fe.local_stat.st_size <= 5 * 1024 * 1024
              /\ fe.local_stat.st_size < 50 * 1024 * 1024
              /\ fe.hashed = TRUE

\* C30 witness: a file of exactly 5 MiB, modified more than 2 seconds from
\* the object, came to the hash step, was hashed and found equal by its
\* hash.
C30_Witness ==
    /\ ComparedSameLength
    /\ fe.local_stat.st_size = 5 * 1024 * 1024
    /\ TimeDiff > 2000
    /\ fe.reached /\ fe.hashed
    /\ HashAgrees
    /\ fe.result = TRUE

\* ------------------------------------------------------------------------
\* The batches of one call and its transaction (SpecPg)
\* ------------------------------------------------------------------------

\* A batched method of the async connector is running or has ended.
InBatchedCall ==
    /\ pg.pcp # "idle"
    /\ pg.c.kind = "async"
    /\ pg.c.op \in {"insert_dataframe_executemany", "upsert_dataframe",
                    "upsert_dataframe_with_ids"}

\* The entries of the log that end a transaction block.
BlockEnds == {"transaction commit", "transaction commit failed",
              "transaction rollback"}

RECURSIVE Turns(_)
\* The log of k batches, each sent and completed before the next.
Turns(k) ==
    IF k = 0 THEN <<>> ELSE <<"executemany", "executemany done">> \o Turns(k - 1)

\* C25: within one call of a batched async method at most one batch is in
\* flight; the transaction block is entered once, before any batch; after
\* a batch is sent the next thing that happens is its completion or its
\* failure, never another send; the block ends once, as the last thing the
\* call does; and a call that returns has run, in this order, the entry of
\* the block, its batches one after the other, and the commit.
C25_BatchesSequentialInOneTransaction ==
    InBatchedCall =>
        /\ pg.in_flight <= 1
        /\ Count(pg.log, "transaction") <= 1
        /\ pg.log # <<>> => pg.log[1] = "transaction"
        /\ \A j \in DOMAIN pg.log :
              /\ pg.log[j] = "executemany" /\ j < Len(pg.log) =>
                    pg.log[j + 1] \in {"executemany done", "transaction rollback"}
              /\ pg.log[j] \in BlockEnds => j = Len(pg.log)
        /\ pg.pcp = "done" /\ pg.raised = "none" /\ pg.ret # RetInt(0) =>
              pg.log = <<"transaction">> \o Turns(Len(pg.batches))
                          \o <<"transaction commit">>

\* C25 witness: an upsert of three rows in batches of one has returned
\* after three batches in one transaction.
C25_Witness ==
    /\ InBatchedCall
    /\ pg.c.op = "upsert_dataframe"
    /\ pg.pcp = "done"
    /\ pg.raised = "none"
    /\ Len(pg.batches) = 3
    /\ pg.log = <<"transaction", "executemany", "executemany done",
                  "executemany", "executemany done",
                  "executemany", "executemany done", "transaction commit">>

\* ------------------------------------------------------------------------
\* Commit and fetch in the sync execute_query (SpecPg)
\* ------------------------------------------------------------------------

\* How often conn.commit() was called, whether or not it succeeded.
CommitsIssued == Count(pg.log, "commit") + Count(pg.log, "commit failed")

\* C28: when the sync execute_query has ended, conn.commit() was called
\* once if the statement succeeded and fetch was false, and not at all
\* otherwise; a call with fetch=True that returns gives back the rows
\* (with the column names when asked for), has called neither commit nor
\* rollback, and leaves the transaction of the statement open with what
\* the statement wrote still pending.
C28_CommitIffSucceededWithoutFetch ==
    PgEnded("sync", "execute_query") =>
        /\ CommitsIssued = (IF pg.stmt = "ok" /\ ~pg.c.fetch THEN 1 ELSE 0)
        /\ pg.c.fetch /\ pg.raised = "none" =>
              /\ pg.stmt = "ok"
              /\ pg.ret = RetData(pg.c.with_columns)
              /\ CommitsIssued = 0
              /\ "rollback" \notin Range(pg.log)
              /\ pg.in_tx
              /\ pg.pending = pg.c.writes
              /\ pg.committed = pg.before

\* C28 witness: a statement that writes a row, run with fetch=True and
\* with_columns, has returned its rows and column names with the row still
\* uncommitted.
C28_Witness ==
    /\ PgEnded("sync", "execute_query")
    /\ pg.c.fetch /\ pg.c.with_columns
    /\ pg.raised = "none"
    /\ pg.ret = RetData(TRUE)
    /\ pg.c.writes # <<>>
    /\ pg.pending = pg.c.writes
    /\ pg.in_tx
    /\ pg.log = <<"cursor", "execute", "fetchall">>

\* ------------------------------------------------------------------------
\* The SET clause of the relational upsert (SpecPg)
\* ------------------------------------------------------------------------

\* upsert_dataframe has built its statement.
UpsertQueryBuilt ==
    /\ pg.pcp # "idle"
    /\ pg.c.op = "upsert_dataframe"
    /\ pg.query # NoneObj

\* Where the column c stands in the dataset.
ColumnIndex(c) == CHOOSE i \in DOMAIN pg.c.df.cols : pg.c.df.cols[i] = c

\* C21: in the statement of upsert_dataframe, when update_columns is not
\* given the columns of the SET clause are the columns of the dataset that
\* are no conflict column, each once and in the order of the dataset, so
\* no conflict column is among them; when update_columns is given the SET
\* clause has exactly that list, in its order.
C21_UpdateColumnsDefault ==
    UpsertQueryBuilt =>
        LET us == pg.query.update_set
        IN  /\ pg.c.update_columns = NoneObj =>
                  /\ Range(us) = Range(pg.c.df.cols) \ Range(pg.c.conflict_columns)
                  /\ Range(us) \cap Range(pg.c.conflict_columns) = {}
                  /\ \A i, j \in DOMAIN us :
                        i < j => ColumnIndex(us[i]) < ColumnIndex(us[j])
            /\ pg.c.update_columns # NoneObj => us = pg.c.update_columns.list
            /\ pg.query.insert = pg.c.df.cols
            /\ pg.query.conflict = pg.c.conflict_columns

\* C21 witness: an upsert of a dataset with the columns id and val, with
\* the conflict column id and no update_columns, has returned after a
\* statement that updates val alone.
C21_Witness ==
    /\ UpsertQueryBuilt
    /\ pg.pcp = "done" /\ pg.raised = "none"
    /\ pg.c.df.cols = <<"id", "val">>
    /\ pg.c.conflict_columns = <<"id">>
    /\ pg.c.update_columns = NoneObj
    /\ pg.query.update_set = <<"val">>

\* ------------------------------------------------------------------------
\* SpecConn: the life of one connector: connect(), close() and scoped
\* blocks ("with connector as c" / "async with connector as c"), in any
\* order.  Both connectors have the same code up to await.
\* ------------------------------------------------------------------------

\* Most calls a caller makes on one connector (entering a block is one).
MaxConnCalls == 4

\* Connections are numbered in the order they are opened; 0 is None.
\* conn is self.conn, closes[i] counts the calls of the underlying
\* close() of connection i, block is where the caller stands with respect
\* to a scoped block, entry is the connection opened on entering it,
\* target is what the block was given, last describes the latest close().
ConnIdle(kind) ==
    [kind |-> kind, conn |-> 0, opened |-> 0,
     closes |-> [i \in 1..(MaxConnCalls + 1) |-> 0],
     block |-> "none", entry |-> 0, target |-> "none", exc |-> FALSE,
     raised |-> "none", calls |-> 0, last |-> NoCall]

InitConn ==
    /\ default_bucket = Bucket
    /\ store = [k \in Keys |-> Absent]
    /\ initial = store
    /\ InitProcs
    /\ fe = NoEval
    /\ s3 = NoEval
    /\ pg \in {ConnIdle(kind) : kind \in {"sync", "async"}}

\* connect(): psycopg2.connect / asyncpg.connect gives a new connection,
\* which replaces self.conn, or raises, which is logged and raised again
\* with self.conn as it was.
connect(p, answer) ==
    IF answer = "ok"
    THEN [p EXCEPT !.opened = @ + 1, !.conn = p.opened + 1, !.raised = "none"]
    ELSE [p EXCEPT !.raised = "Error"]

\* self.conn.closed / self.conn.is_closed() of the connection i.
is_closed(p, i) == p.closes[i] > 0

close_unguarded(p) ==
    LET invoke == p.conn # 0
    IN  [(IF invoke THEN [p EXCEPT !.closes[p.conn] = @ + 1] ELSE p)
            EXCEPT !.raised = "none",
                   !.last = [op |-> "close", conn |-> p.conn,
                             was_closed |-> p.conn # 0 /\ is_closed(p, p.conn),
                             invoked |-> invoke]]

\* close(): "if self.conn and not self.conn.closed: self.conn.close()".
close(p) ==
    LET invoke == p.conn # 0 /\ ~is_closed(p, p.conn)
    IN  [(IF invoke THEN [p EXCEPT !.closes[p.conn] = @ + 1] ELSE p)
            EXCEPT !.raised = "none",
                   !.last = [op |-> "close", conn |-> p.conn,
                             was_closed |-> p.conn # 0 /\ is_closed(p, p.conn),
                             invoked |-> invoke]]

\* __enter__ / __aenter__: connect(), then "return self".  When connect
\* raises, the with statement raises and the block is not run.
enter(p, answer) ==
    LET q == connect(p, answer)
    IN  IF answer = "ok"
        THEN [q EXCEPT !.block = "body", !.entry = q.conn, !.target = "self",
                       !.exc = FALSE]
        ELSE [q EXCEPT !.block = "none", !.entry = 0, !.target = "none"]

exit_on_success_only(p, exc) ==
    [(IF exc THEN p ELSE close(p))
        EXCEPT !.block = "exited", !.exc = exc,
               !.raised = IF exc THEN "BodyError" ELSE "none"]

\* __exit__ / __aexit__: close(), whatever exc_type is; it returns None,
\* so an exception of the block goes on to the caller.
exit(p, exc) ==
    [close(p) EXCEPT !.block = "exited", !.exc = exc,
                     !.raised = IF exc THEN "BodyError" ELSE "none"]

\* The caller calls connect() outside a scoped block.
ConnConnect ==
    /\ pg.block # "body"
    /\ pg.calls < MaxConnCalls
    /\ \E answer \in {"ok", "Error"} :
          pg' = [connect(pg, answer) EXCEPT !.calls = @ + 1, !.last = NoCall]
    /\ UNCHANGED PgRest

\* The caller calls close(), inside or outside a scoped block.
ConnClose ==
    /\ pg.calls < MaxConnCalls
    /\ pg' = [close(pg) EXCEPT !.calls = @ + 1]
    /\ UNCHANGED PgRest

\* The caller enters a scoped block.
ConnEnter ==
    /\ pg.block # "body"
    /\ pg.calls < MaxConnCalls
    /\ \E answer \in {"ok", "Error"} :
          pg' = [enter(pg, answer) EXCEPT !.calls = @ + 1, !.last = NoCall]
    /\ UNCHANGED PgRest

\* The block ends, normally or with an exception raised inside it.
ConnExit ==
    /\ pg.block = "body"
    /\ \E exc \in BOOLEAN : pg' = exit(pg, exc)
    /\ UNCHANGED PgRest

NextConn ==
    \/ ConnConnect
    \/ ConnClose
    \/ ConnEnter
    \/ ConnExit

SpecConn == InitConn /\ [][NextConn]_vars

\* ------------------------------------------------------------------------
\* Properties of the life of a connector (SpecConn)
\* ------------------------------------------------------------------------

\* The caller is inside a scoped block.
InBlock == pg.block = "body"

\* The caller has left a scoped block.
BlockExited == pg.block = "exited"

\* C23: a scoped block is given the connector itself and runs with the
\* connection that was opened for it in self.conn; once the block has been
\* left, normally or by an exception, the underlying close of that
\* connection has been called (exactly once, by the exit or by a close()
\* of the block itself).
C23_ScopedBlockCloses ==
    /\ InBlock =>
          /\ pg.target = "self"
          /\ pg.entry = pg.conn /\ pg.entry = pg.opened /\ pg.entry # 0
    /\ BlockExited =>
          /\ pg.target = "self"
          /\ pg.entry # 0
          /\ pg.closes[pg.entry] = 1

\* C23 witness: a block of the async connector was left by an exception
\* and its connection, still open until then, was closed by the exit.
C23_Witness ==
    /\ BlockExited
    /\ pg.kind = "async"
    /\ pg.exc
    /\ pg.raised = "BodyError"
    /\ pg.last.op = "close" /\ pg.last.invoked /\ pg.last.conn = pg.entry
    /\ pg.closes[pg.entry] = 1

\* C29: no connection has its underlying close called more than once; and
\* a close() calls it exactly when self.conn is a connection that is not
\* closed yet, so not on a connector that never connected and not on a
\* closed connection.
C29_CloseIdempotent ==
    /\ \A i \in DOMAIN pg.closes : pg.closes[i] <= 1
    /\ pg.last # NoCall =>
          /\ pg.last.invoked = (pg.last.conn # 0 /\ ~pg.last.was_closed)
          /\ pg.last.conn = 0 => ~pg.last.invoked
          /\ pg.last.was_closed => ~pg.last.invoked

\* C29 witness: a second close() in a row on the sync connector found the
\* connection closed and did not call the underlying close again.
C29_Witness ==
    /\ pg.kind = "sync"
    /\ pg.block = "none"
    /\ pg.last # NoCall
    /\ pg.last.conn = 1
    /\ pg.last.was_closed
    /\ ~pg.last.invoked
    /\ pg.closes[1] = 1

\* ------------------------------------------------------------------------
\* What a failure looks like to the caller of the object-store and
\* columnar methods (SpecS3)
\* ------------------------------------------------------------------------

\* A public method of S3Uploader or ParquetUploader has ended.
PublicCallEnded == s3.phase = "result" /\ s3.op # "_resolve_bucket"

RaiseForBucket == (S3Ops \ {"_resolve_bucket"}) \cup {"dataframe_to_s3_url"}

=============================================================================
